---- MODULE Spec2Model ----
(***************************************************************************)
(* Payment / subscription reconciliation core of the PWA-payment backend.  *)
(*                                                                         *)
(* The model follows backend/src: the HTTP handlers of handlers/payment.rs *)
(* and handlers/subscription.rs acting on the ledger operations of         *)
(* services/database.rs, with the payment gateway as an environment.       *)
(* src/src/models/payment.rs contributes PaymentStatus::from_peach_code.   *)
(*                                                                         *)
(* Time is counted in whole days.  Strings that the code compares or       *)
(* concatenates are sequences of string tokens: the result code            *)
(* "000.000.000" is <<"000", "000", "000">>, and str::starts_with is a     *)
(* comparison of leading tokens.  Option<T> is a sequence of length 0 or   *)
(* 1.  There is a single user, who owns every subscription, payment and    *)
(* stored payment method.                                                  *)
(***************************************************************************)
EXTENDS Integers, Sequences, FiniteSets, TLC

(***************************************************************************)
(* Bounds of the model.                                                    *)
(***************************************************************************)
MaxSubs == 1          \* subscriptions ever created
MaxPayments == 2      \* payments ever created
MaxTime == 1          \* last day the clock reaches
MaxDeliveries == 2    \* success webhooks accepted
MaxInFlight == 2      \* requests the server handles at the same time

(***************************************************************************)
(* Program constants.                                                      *)
(***************************************************************************)
ActivateDays == 1     \* activate_subscription: end_date = now + Duration::days(1)
MonthlyDurationDays == 30  \* SubscriptionPlan::Monthly.duration_days()

None == <<>>
Some(x) == <<x>>

(***************************************************************************)
(* Gateway result codes.                                                   *)
(***************************************************************************)
CodeSuccess == <<"000", "000", "000">>
CodeSuccessReview == <<"000", "100", "110">>
CodeCheckoutCreated == <<"000", "200", "100">>
CodeTransactionPending == <<"000", "200", "000">>
CodeUserCancelled == <<"100", "396", "104">>
CodeDeclined == <<"800", "100", "100">>

\* The codes a checkout reports before it is settled.
PendingCodes == {CodeCheckoutCreated, CodeTransactionPending}
\* The codes the gateway settles a payment with.
FinalCodes == {CodeSuccess, CodeUserCancelled, CodeDeclined}

\* str::starts_with
StartsWith(code, prefix) ==
    /\ Len(prefix) <= Len(code)
    /\ SubSeq(code, 1, Len(prefix)) = prefix

\* The .map(|code| ...) closure of check_payment_status.
PollStatusOf(code) ==
    IF StartsWith(code, <<"000", "000">>) \/ StartsWith(code, <<"000", "100">>)
    THEN "Completed"
    ELSE IF StartsWith(code, <<"000", "200">>)
         THEN "Pending"
         ELSE "Failed"

\* A match without the arm of the user-cancellation code.
branch_without_cancellation(code) ==
    IF code = CodeSuccess \/ code = CodeSuccessReview THEN "success"
    ELSE IF code = CodeCheckoutCreated THEN "checkout_created"
    ELSE IF code = CodeTransactionPending THEN "pending"
    ELSE "unhandled"

\* The arm of `match status_code.as_str()` that payment_callback takes.
CallbackBranch(code) ==
    IF code = CodeSuccess \/ code = CodeSuccessReview THEN "success"
    ELSE IF code = CodeUserCancelled THEN "cancelled"
    ELSE IF code = CodeCheckoutCreated THEN "checkout_created"
    ELSE IF code = CodeTransactionPending THEN "pending"
    ELSE "unhandled"

\* The status create_recurring_payment derives from the charge's result code.
RecurringStatusOf(code) ==
    IF StartsWith(code, <<"000", "000">>) \/ StartsWith(code, <<"000", "100">>)
    THEN "Completed"
    ELSE "Failed"

\* A success test that also takes a response without result code for a
\* success.
missing_code_succeeded(code) ==
    \/ code = <<>>
    \/ StartsWith(code, <<"000", "000">>)
    \/ StartsWith(code, <<"000", "100">>)

\* A success test that takes every answer of the gateway for a success.
every_charge_succeeded(code) == TRUE

\* The success test of the renewal task on the charge's result code.
RenewalChargeSucceeded(code) ==
    StartsWith(code, <<"000", "000">>) \/ StartsWith(code, <<"000", "100">>)

\* A mapping without the arm of the pending codes.
status_without_processing(code) ==
    IF StartsWith(code, <<"000", "000">>) THEN "Completed"
    ELSE IF StartsWith(code, <<"000", "100">>) THEN "Completed"
    ELSE IF code = CodeUserCancelled THEN "Cancelled"
    ELSE "Failed"

\* PaymentStatus::from_peach_code (src/src/models/payment.rs).
from_peach_code(code) ==
    IF StartsWith(code, <<"000", "000">>) THEN "Completed"
    ELSE IF StartsWith(code, <<"000", "100">>) THEN "Completed"
    ELSE IF StartsWith(code, <<"000", "200">>) THEN "Processing"
    ELSE IF code = CodeUserCancelled THEN "Cancelled"
    ELSE "Failed"

\* Payment::is_final_status (src/src/models/payment.rs).
is_final_status(status) ==
    status \in {"Completed", "Failed", "Cancelled", "Refunded"}

(***************************************************************************)
(* Webhook forms and their signature.                                      *)
(***************************************************************************)
SecretKey == "v1_secret_key"

\* The form keys the handler reads, in lexicographic order.
FormKeysSorted == <<"id", "merchantTransactionId", "result.code", "signature">>

RECURSIVE ConcatParams(_, _)
ConcatParams(form, keys) ==
    IF keys = <<>> THEN <<>>
    ELSE LET k == Head(keys) IN
         (IF k \in DOMAIN form /\ k # "signature"
          THEN <<k>> \o form[k]
          ELSE <<>>) \o ConcatParams(form, Tail(keys))

\* create_signature_payload: every parameter but `signature`, sorted by key,
\* concatenated as key then value.
create_signature_payload(form) == ConcatParams(form, FormKeysSorted)

\* PeachPaymentService::calculate_signature: HMAC-SHA256 of the payload under
\* the secret key, as an ideal keyed function of (key, payload).
calculate_signature(key, body) == <<"hmac", key>> \o body

\* A check that lets every signature through.
accept_any_signature(body, signature) == TRUE

\* PeachPaymentService::validate_webhook_signature
validate_webhook_signature(body, signature) ==
    calculate_signature(SecretKey, body) = signature

\* form_map.get(key).cloned().unwrap_or_default()
FormGet(form, key) == IF key \in DOMAIN form THEN form[key] ELSE <<>>

(***************************************************************************)
(* State.                                                                  *)
(***************************************************************************)
VARIABLES
    now,             \* Utc::now(), in days
    subscriptions,   \* subscription id -> [status, start_date, end_date]
    payments,        \* merchant transaction id -> payment record
    gateway,         \* merchant transaction id -> the gateway's result code of the charge
    polls,           \* merchant transaction id -> status response awaited by a poll
    callbacks,       \* <<merchant transaction id, has id>> -> webhook handlers past the lookup
    autoStore,       \* merchant transaction id -> [started, pending] auto-store tasks
    paymentMethods,  \* number of stored payment methods of the user
    delivered,       \* success webhooks accepted so far
    overlapped,      \* payments that had two success webhooks in the handler at once
    reconciled,      \* payments a webhook or poll carrying the settled code has processed
    last,            \* the operation that ran last and its HTTP answer
    peach_code,      \* the result code the mappings are applied to
    outcomes         \* call site -> the outcome it derived from code

ledgerVars == <<now, subscriptions, payments, gateway, polls, callbacks, autoStore,
                paymentMethods, delivered, overlapped, reconciled, last>>
mapVars == <<peach_code, outcomes>>

\* A Subscription object of src/src/models/subscription.rs and the number of
\* method calls made on it.
VARIABLES sub, subOps
subVars == <<sub, subOps>>

\* The renewal task (tasks/renewal_task.rs): the Active recurring_payments
\* records of the user, the notification records, the charges sent to the
\* gateway, the renewals written, the task's position (with the subscriptions
\* charged in this sweep and the last step's answer) and the sweeps begun.
VARIABLES recurring_payments, notifications, charges, renewals, sweep, sweeps
sweepVars == <<recurring_payments, notifications, charges, renewals, sweep, sweeps>>

\* The automatic charges sent to the gateway and not yet answered.
VARIABLE inflight

\* The body of a webhook request, as its parameters in the order sent, and the
\* answer of the signature check to it.
VARIABLES request, verdict
\* The rows of the payments table that create_payment has written, oldest first.
VARIABLE rows
pureVars == <<request, verdict, rows>>

vars == <<ledgerVars, mapVars, subVars, sweepVars, inflight, pureVars>>

\* The call sites that derive a payment outcome from a result code.
CallSites == {"payment_callback", "check_payment_status",
              "create_recurring_payment", "start_renewal_task", "from_peach_code"}

Txn(i) == "TXN_" \o ToString(i)
TxnIds == {Txn(i) : i \in 1..MaxPayments}
\* A merchant transaction id no payment of the ledger has.
UnknownTxn == "TXN_unknown"
SubIds == 1..MaxSubs

Label(op, resp) == [op |-> op, resp |-> resp]

\* The values a method returns: (), Ok(value) and Err(message).
Unit == <<>>
Ok(value) == <<"Ok", value>>
Err == <<"Err">>


(***************************************************************************)
(* rust_decimal's Decimal, the type of prices and amounts: a sign, a       *)
(* mantissa of at most 96 bits, written here as its decimal digits, the    *)
(* most significant first, and a scale of at most 28 decimal places.       *)
(***************************************************************************)
\* 2^96 - 1, the largest mantissa.
MaxMantissa ==
    <<7, 9, 2, 2, 8, 1, 6, 2, 5, 1, 4, 2, 6, 4, 3, 3, 7, 5, 9, 3, 5, 4, 3, 9, 5, 0, 3, 3, 5>>
\* The largest scale: every mantissa fits a power of ten with that many places.
MaxScale == Len(MaxMantissa) - 1

\* A digit string without its leading zeros.
RECURSIVE Strip(_)
Strip(d) == IF Len(d) > 1 /\ d[1] = 0 THEN Strip(Tail(d)) ELSE d

\* The digits of a natural number, and the natural number of a short digit
\* string.
RECURSIVE NatDigits(_)
NatDigits(n) == IF n < 10 THEN <<n>> ELSE Append(NatDigits(n \div 10), n % 10)

RECURSIVE NatOf(_)
NatOf(d) == IF d = <<>> THEN 0 ELSE 10 * NatOf(SubSeq(d, 1, Len(d) - 1)) + d[Len(d)]

RECURSIVE LessFrom(_, _, _)
LessFrom(a, b, i) ==
    IF i > Len(a) THEN FALSE
    ELSE IF a[i] # b[i] THEN a[i] < b[i]
    ELSE LessFrom(a, b, i + 1)

\* a < b, for digit strings without leading zeros.
DigitsLess(a, b) ==
    IF Len(a) # Len(b) THEN Len(a) < Len(b) ELSE LessFrom(a, b, 1)

\* d with zeros in front, n digits long, and d with k zeros behind.
Pad(d, n) == [i \in 1..n |-> IF i <= n - Len(d) THEN 0 ELSE d[i - (n - Len(d))]]
ScaleUp(d, k) == Strip(d \o [i \in 1..k |-> 0])

RECURSIVE PlusFrom(_, _, _, _)
PlusFrom(a, b, i, carry) ==
    IF i = 0 THEN <<carry>>
    ELSE LET v == a[i] + b[i] + carry
         IN  Append(PlusFrom(a, b, i - 1, v \div 10), v % 10)

Plus(a, b) ==
    LET n == IF Len(a) > Len(b) THEN Len(a) ELSE Len(b)
    IN  Strip(PlusFrom(Pad(a, n), Pad(b, n), n, 0))

RECURSIVE MinusFrom(_, _, _, _)
MinusFrom(a, b, i, borrow) ==
    IF i = 0 THEN <<0>>
    ELSE LET v == a[i] - b[i] - borrow
         IN  Append(MinusFrom(a, b, i - 1, IF v < 0 THEN 1 ELSE 0),
                    IF v < 0 THEN v + 10 ELSE v)

\* a - b, for a >= b.
Minus(a, b) == Strip(MinusFrom(a, Pad(b, Len(a)), Len(a), 0))

RECURSIVE TimesFrom(_, _, _, _)
TimesFrom(d, n, i, carry) ==
    IF i = 0 THEN NatDigits(carry)
    ELSE LET v == d[i] * n + carry
         IN  Append(TimesFrom(d, n, i - 1, v \div 10), v % 10)

\* The digit string d times the natural number n.
Times(d, n) == Strip(TimesFrom(d, n, Len(d), 0))

\* d without its last k digits, rounded half to even on what is dropped.
DropDigits(d, k) ==
    LET kept == IF k >= Len(d) THEN <<0>> ELSE SubSeq(d, 1, Len(d) - k)
        dropped == Pad(d, IF k > Len(d) THEN k ELSE Len(d))
        from == Len(dropped) - k + 1
        rest == \E i \in (from + 1)..Len(dropped) : dropped[i] # 0
        up == k > 0 /\ \/ dropped[from] > 5
                       \/ dropped[from] = 5 /\ rest
                       \/ dropped[from] = 5 /\ kept[Len(kept)] % 2 = 1
    IN  IF up THEN Plus(kept, <<1>>) ELSE kept

\* The result of an operation brought back to 96 bits: as few digits of the exact
\* mantissa d at the given scale are dropped as makes the rounded mantissa fit.
RECURSIVE ScaleResult(_, _, _)
ScaleResult(d, scale, k) ==
    LET m == DropDigits(d, k)
    IN  IF scale - k <= MaxScale /\ ~DigitsLess(MaxMantissa, m)
        THEN [digits |-> m, scale |-> scale - k]
        ELSE ScaleResult(d, scale, k + 1)

Signed(neg, r) ==
    [neg |-> neg /\ r.digits # <<0>>, digits |-> r.digits, scale |-> r.scale]

\* Decimal::new(num, scale)
Decimal_new(num, scale) ==
    [neg |-> num < 0, digits |-> NatDigits(IF num < 0 THEN -num ELSE num),
     scale |-> scale]

\* The quotient digit by digit: q is the mantissa so far at the given scale and
\* r the remainder; digits are added while the scale and the mantissa allow,
\* and the last one is rounded half to even on the remainder.
RECURSIVE DivideFrom(_, _, _, _)
DivideFrom(q, r, b, scale) ==
    LET next == Strip(Append(q, (r * 10) \div b))
    IN  IF r = 0 \/ scale = MaxScale \/ DigitsLess(MaxMantissa, next)
        THEN [digits |-> IF 2 * r > b \/ (2 * r = b /\ q[Len(q)] % 2 = 1)
                         THEN Plus(q, <<1>>) ELSE q,
              scale |-> scale]
        ELSE DivideFrom(next, (r * 10) % b, b, scale + 1)

\* a / b, for a divisor of scale 0 (Decimal::new(days, 0)).
Decimal_div(a, b) ==
    LET x == NatOf(a.digits)
        y == NatOf(b.digits)
    IN  Signed(a.neg # b.neg, DivideFrom(NatDigits(x \div y), x % y, y, a.scale))

\* A product brought back to 96 bits by cutting digits off without rounding.
RECURSIVE TruncateResult(_, _, _)
TruncateResult(d, scale, k) ==
    LET m == IF k >= Len(d) THEN <<0>> ELSE SubSeq(d, 1, Len(d) - k)
    IN  IF scale - k <= MaxScale /\ ~DigitsLess(MaxMantissa, m)
        THEN [digits |-> m, scale |-> scale - k]
        ELSE TruncateResult(d, scale, k + 1)

mul_truncating(a, b) ==
    Signed(a.neg # b.neg, TruncateResult(Times(a.digits, NatOf(b.digits)), a.scale, 0))

\* a * b, for a factor b of scale 0 (Decimal::new(days, 0)).
Decimal_mul(a, b) ==
    Signed(a.neg # b.neg, ScaleResult(Times(a.digits, NatOf(b.digits)), a.scale, 0))

\* The mantissas of a and b at the larger of the two scales.
Aligned(a, b) ==
    LET scale == IF a.scale > b.scale THEN a.scale ELSE b.scale
    IN  [a |-> ScaleUp(a.digits, scale - a.scale),
         b |-> ScaleUp(b.digits, scale - b.scale),
         scale |-> scale]

\* a + b
Decimal_add(a, b) ==
    LET al == Aligned(a, b)
    IN  IF a.neg = b.neg
        THEN Signed(a.neg, ScaleResult(Plus(al.a, al.b), al.scale, 0))
        ELSE IF DigitsLess(al.a, al.b)
        THEN Signed(b.neg, ScaleResult(Minus(al.b, al.a), al.scale, 0))
        ELSE Signed(a.neg, ScaleResult(Minus(al.a, al.b), al.scale, 0))

\* a - b
Decimal_sub(a, b) ==
    Decimal_add(a, [b EXCEPT !.neg = ~b.neg /\ b.digits # <<0>>])

\* a < b and a = b as numbers (PartialOrd and PartialEq of Decimal).
Decimal_lt(a, b) ==
    LET al == Aligned(a, b)
    IN  IF a.neg # b.neg THEN a.neg
        ELSE IF a.neg THEN DigitsLess(al.b, al.a)
        ELSE DigitsLess(al.a, al.b)

Decimal_eq(a, b) == ~Decimal_lt(a, b) /\ ~Decimal_lt(b, a)

\* SubscriptionPlan::price: R100.00 and R1000.00.
price(plan) ==
    IF plan = "Monthly" THEN Decimal_new(10000, 2) ELSE Decimal_new(100000, 2)

(***************************************************************************)
(* The Subscription object (src/src/models/subscription.rs).               *)
(***************************************************************************)
AnnualDurationDays == 365
GracePeriodDays == 7

\* SubscriptionPlan::duration_days
duration_days(plan) ==
    IF plan = "Monthly" THEN MonthlyDurationDays ELSE AnnualDurationDays

\* Subscription::new
Subscription_new(plan, billing_cycle_anchor) ==
    [status |-> "Pending", plan |-> plan, price |-> price(plan),
     start_date |-> None, end_date |-> None, grace_end_date |-> None,
     billing_cycle_anchor |-> billing_cycle_anchor,
     renewal_attempts |-> 0, auto_renew |-> TRUE, paused_at |-> None]

\* Subscription::activate at time t
activate(s, t, grace_period_days) ==
    LET start_date == IF s.billing_cycle_anchor = None
                      THEN t ELSE s.billing_cycle_anchor[1]
        end_date == start_date + duration_days(s.plan)
    IN  [s EXCEPT !.status = "Active",
                  !.start_date = Some(start_date),
                  !.end_date = Some(end_date),
                  !.grace_end_date = Some(end_date + grace_period_days),
                  !.renewal_attempts = 0]

\* Subscription::extend
extend(s, days) ==
    IF s.end_date = None
    THEN s
    ELSE [s EXCEPT !.end_date = Some(s.end_date[1] + days),
                   !.grace_end_date =
                       IF s.grace_end_date = None
                       THEN None ELSE Some(s.grace_end_date[1] + days)]

\* Subscription::pause at time t (Err leaves the object as it is)
pause(s, t) ==
    IF s.status # "Active"
    THEN s
    ELSE [s EXCEPT !.status = "Suspended", !.paused_at = Some(t)]

\* A resume that reactivates without moving the dates.
resume_without_shift(s, t) ==
    IF s.status # "Suspended"
    THEN s
    ELSE [s EXCEPT !.status = "Active", !.paused_at = None]

\* Subscription::resume at time t (Err leaves the object as it is)
resume(s, t) ==
    IF s.status # "Suspended"
    THEN s
    ELSE LET pause_duration == IF s.paused_at = None THEN 0 ELSE t - s.paused_at[1]
             shift(d) == IF d = None THEN None ELSE Some(d[1] + pause_duration)
         IN  [s EXCEPT !.end_date = shift(s.end_date),
                       !.grace_end_date = shift(s.grace_end_date),
                       !.status = "Active",
                       !.paused_at = None]

\* Subscription::cancel
cancel(s) == [s EXCEPT !.status = "Cancelled", !.auto_renew = FALSE]

\* Subscription::change_plan (Err leaves the object as it is)
change_plan(s, new_plan, effective_date) ==
    IF s.status \notin {"Active", "Grace"}
    THEN s
    ELSE IF s.start_date = None
    THEN [s EXCEPT !.plan = new_plan, !.price = price(new_plan)]
    ELSE LET end_date == effective_date + duration_days(new_plan)
             grace_days == s.grace_end_date[1]
                               - (s.start_date[1] + duration_days(s.plan))
         IN  [s EXCEPT !.plan = new_plan,
                       !.price = price(new_plan),
                       !.end_date = Some(end_date),
                       !.grace_end_date =
                           IF s.grace_end_date = None
                           THEN None ELSE Some(end_date + grace_days)]

\* The amounts Subscription::change_plan works out for a change from old_plan to
\* new_plan with days_remaining days of the period left.
proration_amounts(old_plan, new_plan, days_remaining) ==
    LET old_price == price(old_plan)
        new_price == price(new_plan)
        days_in_period == duration_days(old_plan)
        daily_rate_old == Decimal_div(old_price, Decimal_new(days_in_period, 0))
        daily_rate_new ==
            Decimal_div(new_price, Decimal_new(duration_days(new_plan), 0))
        current_plan_refund ==
            Decimal_mul(daily_rate_old, Decimal_new(days_remaining, 0))
        new_plan_charge ==
            Decimal_mul(daily_rate_new, Decimal_new(duration_days(new_plan), 0))
    IN  [current_plan_refund |-> current_plan_refund,
         new_plan_charge |-> new_plan_charge,
         net_amount |-> Decimal_sub(new_plan_charge, current_plan_refund)]

\* The days of a period left that the calls of the model come to, and the
\* amounts for each of them, worked out once.
MaxDaysBefore == 48
MaxDaysAfter == 48
DaysRemaining == (MonthlyDurationDays - MaxDaysAfter)..(AnnualDurationDays + MaxDaysBefore)
ProrationAmounts ==
    [key \in {"Monthly", "Annual"} \X {"Monthly", "Annual"} \X DaysRemaining
        |-> proration_amounts(key[1], key[2], key[3])] @@ <<>>

\* What Subscription::change_plan returns: Err, or Ok with the
\* ProrationCalculation.
change_plan_returns(s, new_plan, effective_date) ==
    IF s.status \notin {"Active", "Grace"}
    THEN Err
    ELSE LET days_used == IF s.start_date # None
                          THEN effective_date - s.start_date[1] ELSE 0
             days_remaining == duration_days(s.plan) - days_used
             amounts == ProrationAmounts[<<s.plan, new_plan, days_remaining>>]
         IN  Ok([current_plan_refund |-> amounts.current_plan_refund,
                 new_plan_charge |-> amounts.new_plan_charge,
                 net_amount |-> amounts.net_amount,
                 effective_date |-> effective_date,
                 days_used |-> days_used,
                 days_remaining |-> days_remaining])

\* Subscription::change_billing_date (Err leaves the object as it is)
change_billing_date(s, new_billing_date) ==
    IF s.status # "Active" \/ s.end_date = None
    THEN s
    ELSE LET grace_days == s.grace_end_date[1] - s.end_date[1]
         IN  [s EXCEPT !.end_date = Some(new_billing_date),
                       !.grace_end_date =
                           IF s.grace_end_date = None
                           THEN None ELSE Some(new_billing_date + grace_days),
                       !.billing_cycle_anchor = Some(new_billing_date)]

\* Subscription::increment_renewal_attempt
increment_renewal_attempt(s) ==
    [s EXCEPT !.renewal_attempts = s.renewal_attempts + 1]

\* Subscription::update_status_based_on_dates at time t
update_status_based_on_dates(s, t, grace_period_days) ==
    IF s.status = "Active" /\ s.end_date # None /\ t > s.end_date[1]
    THEN [s EXCEPT !.status = "Grace",
                   !.grace_end_date =
                       IF s.grace_end_date = None
                       THEN Some(s.end_date[1] + grace_period_days)
                       ELSE s.grace_end_date]
    ELSE IF s.status = "Grace" /\ s.grace_end_date # None /\ t > s.grace_end_date[1]
    THEN [s EXCEPT !.status = "Expired"]
    ELSE s

\* The subscriptions one sweep of the renewal task may find due.
MaxSweepSubs == 2

\* The renewal task before its first sweep.
InitSweep ==
    /\ recurring_payments = 0
    /\ notifications = 0
    /\ charges = 0
    /\ renewals = 0
    /\ sweep = [pc |-> "sleep", due |-> <<>>, charged |-> <<>>,
                step |-> "none", result |-> None,
                paid |-> [s \in 1..MaxSweepSubs |-> None]]
    /\ sweeps = 0
    /\ inflight = {}

\* The object no method has been called on.
InitSub ==
    /\ sub = Subscription_new("Monthly", None)
    /\ subOps = 0

\* No request body under the signature check.
InitPure ==
    /\ request = <<>>
    /\ verdict = "none"
    /\ rows = <<>>

InitLedger ==
    /\ now = 0
    /\ subscriptions = <<>>
    /\ payments = <<>>
    /\ gateway = <<>>
    /\ polls = <<>>
    /\ callbacks = [c \in TxnIds \X BOOLEAN |-> 0]
    /\ autoStore = [m \in TxnIds |-> [started |-> 0, pending |-> 0]]
    /\ paymentMethods = 0
    /\ delivered = 0
    /\ overlapped = {}
    /\ reconciled = {}
    /\ last = Label("init", 0)

Init ==
    /\ InitLedger
    /\ peach_code = <<>>
    /\ outcomes = [site \in CallSites |-> "none"]
    /\ InitSub
    /\ InitSweep
    /\ InitPure

(***************************************************************************)
(* Ledger operations (services/database.rs).                               *)
(***************************************************************************)
\* DatabaseService::get_payment_by_merchant_id
get_payment_by_merchant_id(ps, txn) ==
    IF txn \in DOMAIN ps THEN Some(ps[txn]) ELSE None

\* A write that inserts the record when no payment has the id.
upsert_payment_status(ps, txn, status) ==
    IF txn \in DOMAIN ps
    THEN [ps EXCEPT ![txn].status = status]
    ELSE ps @@ (txn :> [status |-> status])

\* A write that leaves the stored status as it is.
keep_payment_status(ps, txn, status) == ps

\* DatabaseService::update_payment_status: UPDATE payments SET status = $status
\* WHERE merchant_transaction_id = $merchant_id.
update_payment_status(ps, txn, status) ==
    IF txn \in DOMAIN ps
    THEN [ps EXCEPT ![txn].status = status]
    ELSE ps

\* DatabaseService::update_payment_checkout_id
update_payment_checkout_id(ps, txn, checkout_id) ==
    IF txn \in DOMAIN ps
    THEN [ps EXCEPT ![txn].checkout_id = Some(checkout_id)]
    ELSE ps

\* update_payment_peach_id, as payment_callback uses it.
update_payment_peach_id(ps, txn, peach_payment_id) ==
    IF txn \in DOMAIN ps
    THEN [ps EXCEPT ![txn].peach_payment_id = Some(peach_payment_id)]
    ELSE ps

\* A Payment record as it is created: status Pending, no checkout id, no
\* gateway payment id.
NewPayment(subscription_id, is_recurring) ==
    [subscription_id |-> Some(subscription_id), status |-> "Pending",
     checkout_id |-> None, peach_payment_id |-> None,
     is_recurring |-> is_recurring]

\* DatabaseService::create_payment: a fresh merchant transaction id.
create_payment(ps, subscription_id) ==
    ps @@ (Txn(Cardinality(DOMAIN ps) + 1) :> NewPayment(subscription_id, FALSE))

\* create_recurring_payment(dto) of the handlers' database service: a Pending
\* payment marked recurring.
create_recurring_payment(ps, subscription_id) ==
    ps @@ (Txn(Cardinality(DOMAIN ps) + 1) :> NewPayment(subscription_id, TRUE))

\* DatabaseService::create_subscription
create_subscription(subs) ==
    subs @@ (Cardinality(DOMAIN subs) + 1 :>
              [status |-> "Pending", start_date |-> None, end_date |-> None])

\* DatabaseService::activate_subscription: UPDATE subscriptions SET status =
\* 'Active', start_date = $start, end_date = $end WHERE id = $id.
activate_subscription(subs, id, t) ==
    IF id \in DOMAIN subs
    THEN [subs EXCEPT ![id] = [status |-> "Active",
                               start_date |-> Some(t),
                               end_date |-> Some(t + ActivateDays)]]
    ELSE subs

\* store_payment_method: one more stored payment method, made the default.
store_payment_method(methods) == methods + 1

(***************************************************************************)
(* Environment: the clock and the gateway.                                 *)
(***************************************************************************)
Tick ==
    /\ now < MaxTime
    /\ now' = now + 1
    /\ last' = Label("tick", 0)
    /\ UNCHANGED <<subscriptions, payments, gateway, polls, callbacks, autoStore,
                   paymentMethods, delivered, overlapped, reconciled, mapVars, subVars, sweepVars, inflight, pureVars>>

\* The gateway settles a pending checkout with a final result code.
GatewaySettle(txn, code) ==
    /\ txn \in DOMAIN gateway
    /\ gateway[txn] \in PendingCodes
    /\ code \in FinalCodes
    /\ gateway' = [gateway EXCEPT ![txn] = code]
    /\ last' = Label("gateway_settle", 0)
    /\ UNCHANGED <<now, subscriptions, payments, polls, callbacks, autoStore,
                   paymentMethods, delivered, overlapped, reconciled, mapVars, subVars, sweepVars, inflight, pureVars>>

(***************************************************************************)
(* Handlers.                                                               *)
(***************************************************************************)
\* POST /subscriptions/create
CreateSubscription ==
    /\ Cardinality(DOMAIN subscriptions) < MaxSubs
    /\ subscriptions' = create_subscription(subscriptions)
    /\ last' = Label("create_subscription", 201)
    /\ UNCHANGED <<now, payments, gateway, polls, callbacks, autoStore,
                   paymentMethods, delivered, overlapped, reconciled, mapVars, subVars, sweepVars, inflight, pureVars>>

\* POST /payments/initiate.  checkout_ok: the gateway answered with a
\* checkoutId.
InitiatePayment(subscription_id, checkout_ok) ==
    /\ subscription_id \in DOMAIN subscriptions
    /\ subscriptions[subscription_id].status = "Pending"
    /\ Cardinality(DOMAIN payments) < MaxPayments
    /\ LET txn == Txn(Cardinality(DOMAIN payments) + 1)
           created == create_payment(payments, subscription_id)
       IN  IF checkout_ok
           THEN /\ payments' = update_payment_checkout_id(created, txn, txn)
                /\ gateway' = gateway @@ (txn :> CodeCheckoutCreated)
                /\ last' = Label("initiate_payment", 200)
           ELSE /\ payments' = created
                /\ gateway' = gateway
                /\ last' = Label("initiate_payment", 500)
    /\ UNCHANGED <<now, subscriptions, polls, callbacks, autoStore,
                   paymentMethods, delivered, overlapped, reconciled, mapVars, subVars, sweepVars, inflight, pureVars>>

(***************************************************************************)
(* Webhook forms the endpoint may receive.                                 *)
(***************************************************************************)
RECURSIVE SumOver(_, _)
SumOver(f, keys) ==
    IF keys = {} THEN 0
    ELSE LET k == CHOOSE x \in keys : TRUE IN f[k] + SumOver(f, keys \ {k})

\* Requests accepted and not yet answered.
InFlight == Cardinality(DOMAIN polls) + SumOver(callbacks, DOMAIN callbacks)

FormBody(txn, code, has_id) ==
    LET base == ("merchantTransactionId" :> <<txn>>) @@ ("result.code" :> code)
    IN  IF has_id THEN base @@ ("id" :> <<"PAYMENT_OF", txn>>) ELSE base

\* A form the gateway signed.
SignedForm(txn, code, has_id) ==
    LET body == FormBody(txn, code, has_id)
    IN  body @@ ("signature" :>
                   calculate_signature(SecretKey, create_signature_payload(body)))

\* The same form with a signature made without the secret key, with an empty
\* signature, and with no signature parameter at all.
ForgedForm(txn, code, has_id) ==
    LET body == FormBody(txn, code, has_id)
    IN  body @@ ("signature" :>
                   calculate_signature("guessed_key", create_signature_payload(body)))
EmptySignatureForm(txn, code, has_id) ==
    FormBody(txn, code, has_id) @@ ("signature" :> <<>>)
UnsignedForm(txn, code, has_id) == FormBody(txn, code, has_id)

WebhookCodes == PendingCodes \cup FinalCodes

\* The result codes the gateway has reported for a charge, hence may have
\* signed a notification for.
GatewayReported(txn) ==
    IF txn \in DOMAIN gateway
    THEN {gateway[txn]} \cup
         (IF txn \in DOMAIN payments /\ payments[txn].checkout_id # None
          THEN {CodeCheckoutCreated} ELSE {})
    ELSE IF txn = UnknownTxn THEN WebhookCodes ELSE {}

TamperedCodes == {CodeSuccess, CodeUserCancelled}

WebhookForms ==
    LET targets == TxnIds \cup {UnknownTxn}
        tampered == targets \X TamperedCodes \X {TRUE}
    IN
    {SignedForm(x[1], x[2], x[3]) :
        x \in {y \in targets \X WebhookCodes \X BOOLEAN : y[2] \in GatewayReported(y[1])}}
    \cup {ForgedForm(x[1], x[2], x[3]) : x \in tampered}
    \cup {EmptySignatureForm(x[1], x[2], x[3]) : x \in tampered}
    \cup {UnsignedForm(x[1], x[2], x[3]) : x \in tampered}

\* The merchant transaction id a form carries ("" when it carries none).
FormTxn(form) ==
    LET v == FormGet(form, "merchantTransactionId")
    IN  IF v = <<>> THEN "" ELSE v[1]

(***************************************************************************)
(* POST /payments/callback (payment_callback).                             *)
(***************************************************************************)
\* `if !payment.is_recurring`, inside `if let Some(peach_payment_id)`: whether
\* the handler spawns the auto-store task.
ShouldAutoStore(payment, has_id) == has_id /\ ~payment.is_recurring

\* The handler up to the lookup of the payment: the signature check, the
\* parse, and every arm that does not read the payment first.
PaymentCallback(form) ==
    LET provided_signature == FormGet(form, "signature")
        signature_payload == create_signature_payload(form)
        status_code == FormGet(form, "result.code")
        txn == FormTxn(form)
        branch == CallbackBranch(status_code)
    IN
    IF provided_signature = <<>>
    THEN /\ last' = Label("payment_callback", 400)
         /\ UNCHANGED <<now, subscriptions, payments, gateway, polls, callbacks,
                        autoStore, paymentMethods, delivered, overlapped, reconciled, mapVars, subVars, sweepVars, inflight, pureVars>>
    ELSE IF ~validate_webhook_signature(signature_payload, provided_signature)
    THEN /\ last' = Label("payment_callback", 401)
         /\ UNCHANGED <<now, subscriptions, payments, gateway, polls, callbacks,
                        autoStore, paymentMethods, delivered, overlapped, reconciled, mapVars, subVars, sweepVars, inflight, pureVars>>
    ELSE IF branch = "success" /\ get_payment_by_merchant_id(payments, txn) # None
    THEN /\ delivered < MaxDeliveries
         /\ InFlight < MaxInFlight
         /\ delivered' = delivered + 1
         /\ overlapped' = IF callbacks[<<txn, TRUE>>] + callbacks[<<txn, FALSE>>] > 0
                          THEN overlapped \cup {txn} ELSE overlapped
         /\ callbacks' = [callbacks EXCEPT ![<<txn, "id" \in DOMAIN form>>] = @ + 1]
         /\ last' = Label("payment_callback_lookup", 0)
         /\ UNCHANGED <<now, subscriptions, payments, gateway, polls, autoStore,
                        paymentMethods, reconciled, mapVars, subVars, sweepVars, inflight, pureVars>>
    ELSE IF branch = "cancelled"
    THEN /\ payments' = update_payment_status(payments, txn, "Failed")
         /\ reconciled' = IF txn \in DOMAIN payments
                          THEN reconciled \cup {txn} ELSE reconciled
         /\ last' = Label("payment_callback", 200)
         /\ UNCHANGED <<now, subscriptions, gateway, polls, callbacks, autoStore,
                        paymentMethods, delivered, overlapped, mapVars, subVars, sweepVars, inflight, pureVars>>
    ELSE /\ reconciled' = IF txn \in DOMAIN payments /\ status_code \in FinalCodes
                          THEN reconciled \cup {txn} ELSE reconciled
         /\ last' = Label("payment_callback", 200)
         /\ UNCHANGED <<now, subscriptions, payments, gateway, polls, callbacks,
                        autoStore, paymentMethods, delivered, overlapped, mapVars, subVars, sweepVars, inflight, pureVars>>

\* The success arm after the lookup: the payment read by the lookup is
\* `payment`; its is_recurring and subscription_id never change.
PaymentCallbackSuccess(txn, has_id) ==
    /\ callbacks[<<txn, has_id>>] > 0
    /\ LET payment == payments[txn]
           completed == update_payment_status(payments, txn, "Completed")
       IN  /\ payments' = IF has_id
                          THEN update_payment_peach_id(completed, txn, txn)
                          ELSE completed
           /\ autoStore' = IF ShouldAutoStore(payment, has_id)
                           THEN [autoStore EXCEPT ![txn] =
                                   [started |-> @.started + 1,
                                    pending |-> @.pending + 1]]
                           ELSE autoStore
           /\ subscriptions' =
                IF payment.subscription_id # None
                THEN activate_subscription(subscriptions,
                                           payment.subscription_id[1], now)
                ELSE subscriptions
    /\ callbacks' = [callbacks EXCEPT ![<<txn, has_id>>] = @ - 1]
    /\ reconciled' = reconciled \cup {txn}
    /\ last' = Label("payment_callback", 200)
    /\ UNCHANGED <<now, gateway, polls, paymentMethods, delivered, overlapped, mapVars, subVars, sweepVars, inflight, pureVars>>

\* The task payment_callback spawns: after the sleep it fetches the payment
\* details and stores the payment method.  stored: both gateway read and
\* store succeeded.
AutoStoreTask(txn, stored) ==
    /\ autoStore[txn].pending > 0
    /\ autoStore' = [autoStore EXCEPT ![txn].pending = @ - 1]
    /\ paymentMethods' = IF stored
                         THEN store_payment_method(paymentMethods)
                         ELSE paymentMethods
    /\ last' = Label("auto_store_task", 0)
    /\ UNCHANGED <<now, subscriptions, payments, gateway, polls, callbacks,
                   delivered, overlapped, reconciled, mapVars, subVars, sweepVars, inflight, pureVars>>

(***************************************************************************)
(* GET /payments/status/{merchant_transaction_id} (check_payment_status).  *)
(***************************************************************************)
\* The handler up to the gateway's answer.  response: None for a transport
\* error or an answer without result.code, else the checkout's result code.
CheckPaymentStatus(txn, response) ==
    IF get_payment_by_merchant_id(payments, txn) = None
    THEN /\ response = None
         /\ last' = Label("check_payment_status", 404)
         /\ UNCHANGED <<now, subscriptions, payments, gateway, polls, callbacks,
                        autoStore, paymentMethods, delivered, overlapped, reconciled, mapVars, subVars, sweepVars, inflight, pureVars>>
    ELSE IF payments[txn].checkout_id = None
    THEN /\ response = None
         /\ last' = Label("check_payment_status", 200)
         /\ UNCHANGED <<now, subscriptions, payments, gateway, polls, callbacks,
                        autoStore, paymentMethods, delivered, overlapped, reconciled, mapVars, subVars, sweepVars, inflight, pureVars>>
    ELSE IF response = None
    THEN /\ last' = Label("check_payment_status", 500)
         /\ UNCHANGED <<now, subscriptions, payments, gateway, polls, callbacks,
                        autoStore, paymentMethods, delivered, overlapped, reconciled, mapVars, subVars, sweepVars, inflight, pureVars>>
    ELSE /\ txn \notin DOMAIN polls
         /\ InFlight < MaxInFlight
         /\ response = Some(gateway[txn])
         /\ polls' = polls @@ (txn :> response[1])
         /\ last' = Label("check_payment_status_sent", 0)
         /\ UNCHANGED <<now, subscriptions, payments, gateway, callbacks,
                        autoStore, paymentMethods, delivered, overlapped, reconciled, mapVars, subVars, sweepVars, inflight, pureVars>>

\* The handler from the gateway's answer on.
CheckPaymentStatusAnswered(txn) ==
    /\ txn \in DOMAIN polls
    /\ LET payment == payments[txn]
           status == PollStatusOf(polls[txn])
       IN  /\ payments' = update_payment_status(payments, txn, status)
           /\ subscriptions' =
                IF status = "Completed" /\ payment.subscription_id # None
                THEN activate_subscription(subscriptions,
                                           payment.subscription_id[1], now)
                ELSE subscriptions
    /\ polls' = [t \in DOMAIN polls \ {txn} |-> polls[t]]
    /\ reconciled' = IF polls[txn] \in FinalCodes
                     THEN reconciled \cup {txn} ELSE reconciled
    /\ last' = Label("check_payment_status", 200)
    /\ UNCHANGED <<now, gateway, callbacks, autoStore, paymentMethods, delivered, overlapped, mapVars, subVars, sweepVars, inflight, pureVars>>

(***************************************************************************)
(* POST /payments/recurring (create_recurring_payment).                    *)
(***************************************************************************)
\* What process_recurring_payment returns: None for Err, else the result
\* code of the answer ("" when the answer has none).
RecurringResponses ==
    {None} \cup {Some(c) : c \in FinalCodes \cup {CodeTransactionPending, <<>>}}

CreateRecurringPayment(subscription_id, response) ==
    /\ subscription_id \in DOMAIN subscriptions
    /\ paymentMethods > 0
    /\ Cardinality(DOMAIN payments) < MaxPayments
    /\ response \in RecurringResponses
    /\ LET txn == Txn(Cardinality(DOMAIN payments) + 1)
           created == create_recurring_payment(payments, subscription_id)
       IN  IF response = None
           THEN /\ payments' = created
                /\ UNCHANGED <<subscriptions, gateway>>
                /\ last' = Label("create_recurring_payment", 500)
           ELSE LET result_code == response[1]
                    status == RecurringStatusOf(result_code)
                IN  /\ payments' = update_payment_status(created, txn, status)
                    /\ subscriptions' =
                         IF status = "Completed"
                         THEN activate_subscription(subscriptions,
                                                    subscription_id, now)
                         ELSE subscriptions
                    /\ gateway' = IF result_code \in WebhookCodes
                                  THEN gateway @@ (txn :> result_code)
                                  ELSE gateway
                    /\ last' = Label("create_recurring_payment", 200)
    /\ UNCHANGED <<now, polls, callbacks, autoStore, paymentMethods, delivered, overlapped,
                   reconciled, mapVars, subVars, sweepVars, inflight, pureVars>>

Next ==
    \/ Tick
    \/ \E txn \in TxnIds, code \in FinalCodes : GatewaySettle(txn, code)
    \/ CreateSubscription
    \/ \E s \in SubIds, ok \in BOOLEAN : InitiatePayment(s, ok)
    \/ \E form \in WebhookForms : PaymentCallback(form)
    \/ \E txn \in TxnIds, has_id \in BOOLEAN : PaymentCallbackSuccess(txn, has_id)
    \/ \E txn \in TxnIds, stored \in BOOLEAN : AutoStoreTask(txn, stored)
    \/ \E txn \in TxnIds \cup {UnknownTxn}, r \in {None} \cup {Some(c) : c \in WebhookCodes} :
           CheckPaymentStatus(txn, r)
    \/ \E txn \in TxnIds : CheckPaymentStatusAnswered(txn)
    \/ \E s \in SubIds, r \in RecurringResponses : CreateRecurringPayment(s, r)

Spec == Init /\ [][Next]_vars

(***************************************************************************)
(* The result-code mappings of the call sites, each applied to one code.   *)
(***************************************************************************)
MaxCodeLen == 3
CodeGroups == {"000", "100", "104", "110", "200", "396", "800"}
Codes == UNION {[1..n -> CodeGroups] : n \in 0..MaxCodeLen}

\* `Pending` written over a pending payment changes nothing.
OutcomeOfStatus(status) == IF status = "Pending" THEN "NoChange" ELSE status

\* What each call site does to the payment for a charge with code c.
CallbackOutcome(c) ==
    IF CallbackBranch(c) = "success" THEN "Completed"
    ELSE IF CallbackBranch(c) = "cancelled" THEN "Failed"
    ELSE "NoChange"
PollOutcome(c) == OutcomeOfStatus(PollStatusOf(c))
RecurringOutcome(c) == OutcomeOfStatus(RecurringStatusOf(c))
RenewalOutcome(c) == IF RenewalChargeSucceeded(c) THEN "Completed" ELSE "Failed"

SiteOutcome(site, c) ==
    CASE site = "payment_callback" -> CallbackOutcome(c)
      [] site = "check_payment_status" -> PollOutcome(c)
      [] site = "create_recurring_payment" -> RecurringOutcome(c)
      [] site = "start_renewal_task" -> RenewalOutcome(c)
      [] site = "from_peach_code" -> OutcomeOfStatus(from_peach_code(c))

Derive(site) ==
    /\ outcomes[site] = "none"
    /\ outcomes' = [outcomes EXCEPT ![site] = SiteOutcome(site, peach_code)]
    /\ UNCHANGED <<peach_code, ledgerVars, subVars, sweepVars, inflight, pureVars>>

InitMap ==
    /\ InitLedger
    /\ InitSub
    /\ InitSweep
    /\ InitPure
    /\ peach_code \in Codes
    /\ outcomes = [site \in CallSites |-> "none"]

NextMap == \E site \in CallSites : Derive(site)

SpecMap == InitMap /\ [][NextMap]_vars

(***************************************************************************)
(* Properties of the payment status machine.                               *)
(***************************************************************************)
\* A success webhook of payment m leaves the handler in this step.
DeliveryCompletes(m) ==
    \E has_id \in BOOLEAN : callbacks'[<<m, has_id>>] < callbacks[<<m, has_id>>]

\* No poll and no success webhook of payment m is in a handler.
Quiescent(m) ==
    /\ m \notin DOMAIN polls
    /\ callbacks[<<m, TRUE>>] = 0
    /\ callbacks[<<m, FALSE>>] = 0

\* The subscription a payment is linked to.
LinkedSubscription(subs, payment) == subs[payment.subscription_id[1]]

\* C1: a payment that has reached a terminal status (Completed, Failed,
\* Cancelled, Refunded) never afterwards has status Pending, whatever webhook,
\* poll or recurring-charge step runs.
TerminalNeverPending ==
    [][\A m \in DOMAIN payments :
          is_final_status(payments[m].status) => payments'[m].status # "Pending"]_vars

\* C2: applying a status to a payment that is in a different terminal status
\* leaves the status as it was; in particular Completed applied to a Failed
\* payment leaves it Failed.
TerminalStatusRejectsUpdate ==
    \A m \in DOMAIN payments :
        \A status \in {"Pending", "Completed", "Failed", "Cancelled", "Refunded"} :
            (is_final_status(payments[m].status) /\ status # payments[m].status)
                => update_payment_status(payments, m, status)[m].status
                       = payments[m].status

\* C3: payments the gateway settled with the same result code, once a webhook
\* or poll carrying that code has been processed and no handler is running for
\* them, have the same status and their subscriptions have the same status,
\* whichever webhooks and polls ran and in whichever order.
SettledPaymentsConverge ==
    \A m1 \in reconciled, m2 \in reconciled :
        (Quiescent(m1) /\ Quiescent(m2) /\ gateway[m1] = gateway[m2])
            => /\ payments[m1].status = payments[m2].status
               /\ LinkedSubscription(subscriptions, payments[m1]).status
                    = LinkedSubscription(subscriptions, payments[m2]).status

\* C4: a payment whose success webhooks were processed concurrently has had
\* the auto-store task started at most once.
ConcurrentDeliveriesStoreOnce ==
    \A m \in overlapped : autoStore[m].started <= 1

\* C5: a success webhook processed for a payment that is already Completed
\* and whose auto-store task was already started by an earlier delivery that
\* had finished before this one arrived leaves the status Completed and starts
\* no further auto-store task.
CompletedAgainStoresNothing ==
    [][\A m \in DOMAIN payments :
          (/\ DeliveryCompletes(m)
           /\ m \notin overlapped
           /\ payments[m].status = "Completed"
           /\ autoStore[m].started >= 1)
              => /\ payments'[m].status = "Completed"
                 /\ autoStore'[m].started = autoStore[m].started]_vars

\* C6: a success webhook redelivered for a payment an earlier delivery, over
\* before this one arrived, already completed leaves the payment record and the linked subscription (status,
\* start date, end date) as they were, however much time has passed.
RedeliveryChangesNothing ==
    [][\A m \in DOMAIN payments :
          (/\ DeliveryCompletes(m)
           /\ m \notin overlapped
           /\ payments[m].status = "Completed"
           /\ payments[m].peach_payment_id # None
           /\ LinkedSubscription(subscriptions, payments[m]).status = "Active")
              => /\ payments'[m] = payments[m]
                 /\ LinkedSubscription(subscriptions', payments[m])
                      = LinkedSubscription(subscriptions, payments[m])]_vars

(***************************************************************************)
(* Properties of webhook verification.                                     *)
(***************************************************************************)
\* The forms whose signature is missing, empty or not the HMAC of the
\* payload under the secret key.
RejectableForms ==
    LET all == (TxnIds \cup {UnknownTxn}) \X TamperedCodes \X {TRUE} IN
    {ForgedForm(x[1], x[2], x[3]) : x \in all}
    \cup {EmptySignatureForm(x[1], x[2], x[3]) : x \in all}
    \cup {UnsignedForm(x[1], x[2], x[3]) : x \in all}

\* C7: a webhook whose signature is missing is answered 400 and one whose
\* signature does not match is answered 401, and neither changes a payment,
\* a subscription, a stored payment method or starts any processing.
BadSignatureRejected ==
    [][last'.op \in {"payment_callback", "payment_callback_lookup"} =>
          \A form \in RejectableForms :
              PaymentCallback(form)
                  => /\ last'.op = "payment_callback"
                     /\ last'.resp = IF FormGet(form, "signature") = <<>>
                                      THEN 400 ELSE 401
                     /\ UNCHANGED <<payments, subscriptions, paymentMethods,
                                    autoStore, callbacks, delivered>>]_vars

\* A forged webhook has just been answered 401 while a payment the gateway
\* settled as successful is still Pending.
ForgedWebhookRejected ==
    /\ last = Label("payment_callback", 401)
    /\ \E m \in DOMAIN payments :
          /\ payments[m].status = "Pending"
          /\ m \in DOMAIN gateway
          /\ gateway[m] = CodeSuccess
          /\ Quiescent(m)

(***************************************************************************)
(* Properties of the result-code mappings.                                 *)
(***************************************************************************)
\* The mapping the specification documents.
DocumentedOutcome(c) ==
    IF c = CodeSuccess \/ c = CodeSuccessReview THEN "Completed"
    ELSE IF c = CodeCheckoutCreated THEN "NoChange"
    ELSE "Failed"

\* The codes the documented mapping names, and the codes of no success or
\* pending family.
DocumentedCodes ==
    {CodeSuccess, CodeSuccessReview, CodeCheckoutCreated, CodeUserCancelled}
    \cup {c \in Codes : c = <<>> \/ c[1] # "000"}

\* C8: the result-code mapping gives Completed for 000.000.000 and
\* 000.100.110, Pending (no change) for 000.200.100, Failed for 100.396.104
\* and Failed for every unrecognized code.
ResultCodeMappingAsDocumented ==
    \A site \in {"from_peach_code", "check_payment_status"} :
        (outcomes[site] # "none" /\ peach_code \in DocumentedCodes)
            => outcomes[site] = DocumentedOutcome(peach_code)

\* C9: for every result code the webhook handler, the poll handler, the
\* recurring-payment handler and the renewal task derive the same outcome.
CallSitesAgree ==
    \A s1, s2 \in CallSites \ {"from_peach_code"} :
        (outcomes[s1] # "none" /\ outcomes[s2] # "none")
            => outcomes[s1] = outcomes[s2]

(***************************************************************************)
(* Properties of activation.                                               *)
(***************************************************************************)
\* C10: a success webhook processed for a Pending payment of a Pending
\* subscription on the monthly plan leaves the payment Completed and the
\* subscription Active with end_date = start_date + 30 days.
FirstPaymentActivatesForPlanDuration ==
    [][\A m \in DOMAIN payments :
          (/\ DeliveryCompletes(m)
           /\ payments[m].status = "Pending"
           /\ LinkedSubscription(subscriptions, payments[m]).status = "Pending")
              => LET linked == LinkedSubscription(subscriptions', payments[m]) IN
                 /\ payments'[m].status = "Completed"
                 /\ linked.status = "Active"
                 /\ linked.end_date = Some(linked.start_date[1] + MonthlyDurationDays)]_vars

\* C11: a success webhook that completes a Pending payment whose subscription
\* is already Active renews the subscription: the start date is not moved and
\* the end date is the former end date plus the plan duration.
CompletionRenewsActiveSubscription ==
    [][\A m \in DOMAIN payments :
          (/\ DeliveryCompletes(m)
           /\ payments[m].status = "Pending"
           /\ LinkedSubscription(subscriptions, payments[m]).status = "Active")
              => LET old == LinkedSubscription(subscriptions, payments[m])
                     new == LinkedSubscription(subscriptions', payments[m])
                 IN  /\ new.status = "Active"
                     /\ new.start_date = old.start_date
                     /\ new.end_date = Some(old.end_date[1] + MonthlyDurationDays)]_vars

(***************************************************************************)
(* Voucher redemption and operator activation (handlers/subscription.rs).  *)
(***************************************************************************)
\* POST /subscriptions/voucher.  has_code: the voucher code is not empty.
ProcessVoucher(subscription_id, has_code) ==
    IF ~has_code
    THEN /\ last' = Label("process_voucher", 400)
         /\ UNCHANGED <<now, subscriptions, payments, gateway, polls, callbacks,
                        autoStore, paymentMethods, delivered, overlapped,
                        reconciled, mapVars, subVars, sweepVars, inflight, pureVars>>
    ELSE IF subscription_id \notin DOMAIN subscriptions
    THEN /\ last' = Label("process_voucher", 404)
         /\ UNCHANGED <<now, subscriptions, payments, gateway, polls, callbacks,
                        autoStore, paymentMethods, delivered, overlapped,
                        reconciled, mapVars, subVars, sweepVars, inflight, pureVars>>
    ELSE IF subscriptions[subscription_id].status # "Pending"
    THEN /\ last' = Label("process_voucher", 400)
         /\ UNCHANGED <<now, subscriptions, payments, gateway, polls, callbacks,
                        autoStore, paymentMethods, delivered, overlapped,
                        reconciled, mapVars, subVars, sweepVars, inflight, pureVars>>
    ELSE /\ Cardinality(DOMAIN payments) < MaxPayments
         /\ payments' = create_payment(payments, subscription_id)
         /\ subscriptions' = activate_subscription(subscriptions, subscription_id, now)
         /\ last' = Label("process_voucher", 200)
         /\ UNCHANGED <<now, gateway, polls, callbacks, autoStore, paymentMethods,
                        delivered, overlapped, reconciled, mapVars, subVars, sweepVars, inflight, pureVars>>

\* POST /subscriptions/activate: the operator's activation.
ActivateSubscription(subscription_id) ==
    IF subscription_id \in DOMAIN subscriptions
    THEN /\ subscriptions' = activate_subscription(subscriptions, subscription_id, now)
         /\ last' = Label("activate_subscription", 200)
         /\ UNCHANGED <<now, payments, gateway, polls, callbacks, autoStore,
                        paymentMethods, delivered, overlapped, reconciled, mapVars, subVars, sweepVars, inflight, pureVars>>
    ELSE /\ last' = Label("activate_subscription", 400)
         /\ UNCHANGED <<now, subscriptions, payments, gateway, polls, callbacks,
                        autoStore, paymentMethods, delivered, overlapped,
                        reconciled, mapVars, subVars, sweepVars, inflight, pureVars>>

\* The handlers mounted by main together with the handlers declared in
\* handlers/subscription.rs: process_voucher carries a route attribute but
\* main does not mount it, so Spec leaves it out and SpecActivation adds it.
NextActivation ==
    \/ Next
    \/ \E s \in SubIds, has_code \in BOOLEAN : ProcessVoucher(s, has_code)
    \/ \E s \in SubIds : ActivateSubscription(s)

SpecActivation == Init /\ [][NextActivation]_vars

\* C12: a subscription moves from Pending to Active only in the operator's
\* activation or when a payment linked to it is Completed.
ActivationNeedsCompletedPayment ==
    [][\A s \in DOMAIN subscriptions :
          (subscriptions[s].status = "Pending" /\ subscriptions'[s].status = "Active")
              => \/ last'.op = "activate_subscription"
                 \/ \E m \in DOMAIN payments' :
                       /\ payments'[m].subscription_id = Some(s)
                       /\ payments'[m].status = "Completed"]_vars

(***************************************************************************)
(* Method calls on one Subscription object while time passes.              *)
(***************************************************************************)
MaxSubOps == 5
MaxClock == 40

Plans == {"Monthly", "Annual"}
\* The dates a caller asks for as billing date or billing-cycle anchor.
BillingDates == {16, 48}
\* The dates a caller asks a plan change to take effect on.
EffectiveDates == BillingDates \cup {15}
\* The days that pass between two calls.
Elapsed == {8}

\* A method call returns: value is what it returns to the caller and result the
\* object it leaves.
Returns(op, value, result) ==
    /\ sub' = result
    /\ subOps' = subOps + 1
    /\ last' = Label(op, value)
    /\ UNCHANGED <<subscriptions, payments, gateway, polls, callbacks, autoStore,
                   paymentMethods, now, delivered, overlapped, reconciled,
                   mapVars, sweepVars, inflight, pureVars>>

Activate ==
    /\ subOps < MaxSubOps
    /\ Returns("activate", Unit, activate(sub, now, GracePeriodDays))

\* A renewal extends by the duration of the plan.
Extend ==
    /\ subOps < MaxSubOps
    /\ Returns("extend", Unit, extend(sub, duration_days(sub.plan)))

Pause ==
    /\ subOps < MaxSubOps
    /\ Returns("pause", IF sub.status = "Active" THEN Ok(Unit) ELSE Err, pause(sub, now))

Resume ==
    /\ subOps < MaxSubOps
    /\ Returns("resume", IF sub.status = "Suspended" THEN Ok(Unit) ELSE Err,
               resume(sub, now))

Cancel ==
    /\ subOps < MaxSubOps
    /\ Returns("cancel", Unit, cancel(sub))

\* effective_date: None stands for Utc::now().
ChangePlan(new_plan, effective_date) ==
    /\ subOps < MaxSubOps
    /\ LET date == IF effective_date = None THEN now ELSE effective_date[1]
       IN  Returns("change_plan",
                   change_plan_returns(sub, new_plan, date),
                   change_plan(sub, new_plan, date))

ChangeBillingDate(new_billing_date) ==
    /\ subOps < MaxSubOps
    /\ new_billing_date >= now
    /\ Returns("change_billing_date",
               IF sub.status = "Active" /\ sub.end_date # None THEN Ok(Unit) ELSE Err,
               change_billing_date(sub, new_billing_date))

IncrementRenewalAttempt ==
    /\ subOps < MaxSubOps
    /\ Returns("increment_renewal_attempt", Unit, increment_renewal_attempt(sub))

UpdateStatusBasedOnDates ==
    /\ subOps < MaxSubOps
    /\ Returns("update_status_based_on_dates", Unit,
               update_status_based_on_dates(sub, now, GracePeriodDays))

Advance(days) ==
    /\ now + days <= MaxClock
    /\ now' = now + days
    /\ UNCHANGED <<subscriptions, payments, gateway, polls, callbacks, autoStore,
                   paymentMethods, delivered, overlapped, reconciled, last,
                   mapVars, subVars, sweepVars, inflight, pureVars>>

InitObject ==
    /\ InitLedger
    /\ peach_code = <<>>
    /\ outcomes = [site \in CallSites |-> "none"]
    /\ \E plan \in Plans, anchor \in {None} \cup {Some(d) : d \in BillingDates} :
          sub = Subscription_new(plan, anchor)
    /\ subOps = 0
    /\ InitSweep
    /\ InitPure

NextObject ==
    \/ Activate
    \/ Extend
    \/ Pause
    \/ Resume
    \/ Cancel
    \/ \E new_plan \in Plans,
          effective_date \in {None} \cup {Some(d) : d \in {b \in EffectiveDates : b >= now}} :
          ChangePlan(new_plan, effective_date)
    \/ \E d \in BillingDates : ChangeBillingDate(d)
    \/ IncrementRenewalAttempt
    \/ UpdateStatusBasedOnDates
    \/ \E days \in Elapsed : Advance(days)

SpecObject == InitObject /\ [][NextObject]_vars

\* C13: once the subscription is Cancelled or Expired no method call changes
\* its status.
TerminalSubscriptionKeepsStatus ==
    [][sub.status \in {"Cancelled", "Expired"} => sub'.status = sub.status]_vars

\* C14: an activated subscription always has
\* start_date <= end_date <= grace_end_date.
ActivatedDatesOrdered ==
    sub.start_date # None
        => /\ sub.start_date[1] <= sub.end_date[1]
           /\ sub.end_date[1] <= sub.grace_end_date[1]

(***************************************************************************)
(* The renewal task (tasks/renewal_task.rs) over the subscription table.   *)
(***************************************************************************)
MaxSweeps == 3
MaxSweepDay == 3
MaxTokens == 1

RenewalDays == 30
SuspendCutoffDays == 1

\* The ids of a table in ascending order.
Ids(subs) == [i \in 1..Cardinality(DOMAIN subs) |-> i]

\* DatabaseService::get_due_subscriptions: SELECT * FROM subscriptions WHERE
\* status = 'Active' AND end_date <= $now.
get_due_subscriptions(subs, t) ==
    SelectSeq(Ids(subs),
              LAMBDA i : /\ subs[i].status = "Active"
                         /\ subs[i].end_date # None
                         /\ subs[i].end_date[1] <= t)

\* A query without the cutoff: every Active subscription whose end date has
\* passed.
expired_without_cutoff(subs, t) ==
    SelectSeq(Ids(subs),
              LAMBDA i : /\ subs[i].status = "Active"
                         /\ subs[i].end_date # None
                         /\ subs[i].end_date[1] < t)

\* A query for the status 'Grace', which no write of the table sets.
expired_in_grace(subs, t) ==
    SelectSeq(Ids(subs),
              LAMBDA i : /\ subs[i].status = "Grace"
                         /\ subs[i].end_date # None
                         /\ subs[i].end_date[1] < t - SuspendCutoffDays)

\* DatabaseService::get_expired_unpaid_subscriptions: SELECT * FROM
\* subscriptions WHERE status = 'Active' AND end_date < $cutoff, the cutoff
\* being one day before now.
get_expired_unpaid_subscriptions(subs, t) ==
    SelectSeq(Ids(subs),
              LAMBDA i : /\ subs[i].status = "Active"
                         /\ subs[i].end_date # None
                         /\ subs[i].end_date[1] < t - SuspendCutoffDays)

\* DatabaseService::get_recurring_token_by_user: the token of an Active
\* recurring_payments record of the user, if there is one.
get_recurring_token_by_user(records) ==
    IF records > 0 THEN Some("token") ELSE None

\* A renewal that writes the status and leaves the dates as they are.
renew_without_dates(subs, id, t) ==
    IF id \in DOMAIN subs
    THEN [subs EXCEPT ![id].status = "Active"]
    ELSE subs

\* DatabaseService::mark_subscription_renewed: UPDATE subscriptions SET
\* start_date = $now, end_date = $now + 30 days, status = 'Active'.
mark_subscription_renewed(subs, id, t) ==
    IF id \in DOMAIN subs
    THEN [subs EXCEPT ![id] = [status |-> "Active",
                               start_date |-> Some(t),
                               end_date |-> Some(t + RenewalDays)]]
    ELSE subs

\* DatabaseService::suspend_subscription: UPDATE subscriptions SET status =
\* 'Suspended'.
suspend_subscription(subs, id) ==
    IF id \in DOMAIN subs
    THEN [subs EXCEPT ![id].status = "Suspended"]
    ELSE subs

\* The answers of the gateway to a recurring charge: Err (None), or Ok with
\* the result code of the response (the empty code when it carries none).
ChargeResults ==
    {None} \cup {Some(c) : c \in {CodeSuccess, CodeSuccessReview,
                                  CodeTransactionPending, CodeDeclined, <<>>}}

\* A day passes.
DayPasses ==
    /\ now < MaxSweepDay
    /\ now' = now + 1
    /\ last' = Label("tick", 0)
    /\ UNCHANGED <<subscriptions, payments, gateway, polls, callbacks, autoStore,
                   paymentMethods, delivered, overlapped, reconciled,
                   mapVars, subVars, sweepVars, inflight, pureVars>>

\* DatabaseService::create_recurring_payment(user_id, subscription_id, token,
\* ..): one more Active recurring_payments record of the user.
RegisterRecurringToken ==
    /\ recurring_payments < MaxTokens
    /\ recurring_payments' = recurring_payments + 1
    /\ last' = Label("register_token", 0)
    /\ UNCHANGED <<now, subscriptions, payments, gateway, polls, callbacks,
                   autoStore, paymentMethods, delivered, overlapped, reconciled,
                   mapVars, subVars, notifications, charges, renewals, sweep, sweeps, inflight, pureVars>>

\* The task wakes up and fetches the due subscriptions.
SweepStart ==
    /\ sweep.pc = "sleep"
    /\ sweeps < MaxSweeps
    /\ sweeps' = sweeps + 1
    /\ sweep' = [sweep EXCEPT !.pc = "renew",
                              !.due = get_due_subscriptions(subscriptions, now),
                              !.charged = <<>>,
                              !.step = "none",
                              !.result = None]
    /\ last' = Label("sweep_start", 0)
    /\ UNCHANGED <<now, subscriptions, payments, gateway, polls, callbacks,
                   autoStore, paymentMethods, delivered, overlapped, reconciled,
                   mapVars, subVars, recurring_payments, notifications, charges,
                   renewals, inflight, pureVars>>

\* The task's record after a charge for sub_id answered charge_result at
\* time t.  paid[s] keeps the day up to which the last charge the gateway
\* accepted for s pays.
Charged(record, sub_id, charge_result, t) ==
    [record EXCEPT !.due = Tail(record.due),
                   !.charged = Append(record.charged, sub_id),
                   !.step = "charged",
                   !.result = charge_result,
                   !.paid = IF charge_result # None
                               /\ RenewalChargeSucceeded(charge_result[1])
                            THEN [record.paid EXCEPT ![sub_id] = Some(t + RenewalDays)]
                            ELSE record.paid]

\* The body of the loop over the due subscriptions, for the next of them.
\* charge_result: the answer of the gateway when a charge is sent.
RenewDue(charge_result) ==
    /\ sweep.pc = "renew"
    /\ sweep.due # <<>>
    /\ LET sub_id == Head(sweep.due)
           token_opt == get_recurring_token_by_user(recurring_payments)
       IN  IF token_opt # None
           THEN /\ charges' = charges + 1
                /\ sweep' = Charged(sweep, sub_id, charge_result, now)
                /\ IF charge_result # None /\ RenewalChargeSucceeded(charge_result[1])
                   THEN /\ subscriptions' =
                               mark_subscription_renewed(subscriptions, sub_id, now)
                        /\ renewals' = renewals + 1
                        /\ UNCHANGED notifications
                   ELSE /\ notifications' = notifications + 1
                        /\ UNCHANGED <<subscriptions, renewals>>
           ELSE /\ charge_result = None
                /\ notifications' = notifications + 1
                /\ sweep' = [sweep EXCEPT !.due = Tail(sweep.due),
                                          !.step = "no_token",
                                          !.result = None]
                /\ UNCHANGED <<subscriptions, charges, renewals>>
    /\ last' = Label("renew_due", 0)
    /\ UNCHANGED <<now, payments, gateway, polls, callbacks, autoStore,
                   paymentMethods, delivered, overlapped, reconciled,
                   mapVars, subVars, recurring_payments, sweeps, inflight, pureVars>>

\* A loop body in which an error of the database write ends the task.
abort_on_write_error(charge_result) ==
    /\ sweep.pc = "renew"
    /\ sweep.due # <<>>
    /\ sweep' = [sweep EXCEPT !.pc = "aborted"]
    /\ last' = Label("renew_due_write_failed", 0)
    /\ UNCHANGED <<now, subscriptions, payments, gateway, polls, callbacks,
                   autoStore, paymentMethods, delivered, overlapped, reconciled,
                   mapVars, subVars, recurring_payments, notifications, charges,
                   renewals, sweeps, inflight, pureVars>>

\* The body of the loop when the database write that follows the token
\* lookup and the charge (mark_subscription_renewed or
\* create_manual_renewal_notification) returns Err: the task logs the error
\* and goes on.
RenewDueWriteFails(charge_result) ==
    /\ sweep.pc = "renew"
    /\ sweep.due # <<>>
    /\ LET sub_id == Head(sweep.due)
           token_opt == get_recurring_token_by_user(recurring_payments)
       IN  IF token_opt # None
           THEN /\ charges' = charges + 1
                /\ sweep' = Charged(sweep, sub_id, charge_result, now)
           ELSE /\ charge_result = None
                /\ sweep' = [sweep EXCEPT !.due = Tail(sweep.due),
                                          !.step = "no_token",
                                          !.result = None]
                /\ UNCHANGED charges
    /\ last' = Label("renew_due_write_failed", 0)
    /\ UNCHANGED <<now, subscriptions, payments, gateway, polls, callbacks,
                   autoStore, paymentMethods, delivered, overlapped, reconciled,
                   mapVars, subVars, recurring_payments, notifications, renewals,
                   sweeps, inflight, pureVars>>

RECURSIVE SuspendAll(_, _)
SuspendAll(subs, ids) ==
    IF ids = <<>> THEN subs
    ELSE SuspendAll(suspend_subscription(subs, Head(ids)), Tail(ids))

\* After the loop: the expired unpaid subscriptions are suspended and the
\* task goes to sleep.
SuspendExpired ==
    /\ sweep.pc = "renew"
    /\ sweep.due = <<>>
    /\ subscriptions' =
           SuspendAll(subscriptions, get_expired_unpaid_subscriptions(subscriptions, now))
    /\ sweep' = [sweep EXCEPT !.pc = "sleep"]
    /\ last' = Label("suspend_expired", 0)
    /\ UNCHANGED <<now, payments, gateway, polls, callbacks, autoStore,
                   paymentMethods, delivered, overlapped, reconciled,
                   mapVars, subVars, recurring_payments, notifications, charges,
                   renewals, sweeps, inflight, pureVars>>

NextSweep ==
    \/ CreateSubscription
    \/ \E s \in SubIds : ActivateSubscription(s)
    \/ DayPasses
    \/ RegisterRecurringToken
    \/ SweepStart
    \/ \E charge_result \in ChargeResults : RenewDue(charge_result)
    \/ SuspendExpired

SpecSweep == Init /\ [][NextSweep]_vars

\* The subscription the step renews, if the step is a renewal.
Renews(s) ==
    /\ renewals' = renewals + 1
    /\ sweep.due # <<>>
    /\ Head(sweep.due) = s

\* C15: a renewal sets the end date to the previous end date plus the plan
\* duration, whatever the time of the renewal.
RenewalExtendsFromPreviousEnd ==
    [][\A s \in DOMAIN subscriptions :
          Renews(s) => subscriptions'[s].end_date
                           = Some(subscriptions[s].end_date[1] + MonthlyDurationDays)]_vars

\* C16: a subscription that was activated and is renewed for the first time
\* has at least two plan durations between its start date and its end date.
FirstRenewalCoversTwoPeriods ==
    [][\A s \in DOMAIN subscriptions :
          (Renews(s) /\ renewals = 0)
              => subscriptions'[s].end_date[1] - subscriptions'[s].start_date[1]
                     >= 2 * MonthlyDurationDays]_vars

\* C17: an activation leaves the subscription Active with start date now and
\* end date = start date + plan duration.
ActivationSetsPlanPeriod ==
    [][\A s \in DOMAIN subscriptions :
          (/\ last'.op = "activate_subscription"
           /\ last'.resp = 200
           /\ subscriptions'[s] # subscriptions[s])
              => /\ subscriptions'[s].status = "Active"
                 /\ subscriptions'[s].start_date = Some(now)
                 /\ subscriptions'[s].end_date = Some(now + MonthlyDurationDays)]_vars

\* The day after which the task suspends an unpaid subscription: its end
\* date plus the cutoff of get_expired_unpaid_subscriptions.
GraceEnd(s) == s.end_date[1] + SuspendCutoffDays

ChargeFailed(charge_result) ==
    \/ charge_result = None
    \/ /\ ~StartsWith(charge_result[1], <<"000", "000">>)
       /\ ~StartsWith(charge_result[1], <<"000", "100">>)

\* The number of charges a sweep has sent for subscription s.
ChargesFor(charged, s) == Len(SelectSeq(charged, LAMBDA c : c = s))

FailedChargeCountsAttempt ==
    [][(/\ last'.op = "renew_due"
        /\ sweep'.step = "charged"
        /\ ChargeFailed(sweep'.result))
           => sub'.renewal_attempts = sub.renewal_attempts + 1]_vars

\* C21: the task renews a subscription only in a step in which the gateway
\* answered that subscription's charge with a success result code; an error,
\* a response without result code or any other code never leads to a renewal.
RenewalOnlyOnSuccessCode ==
    [][\A s \in DOMAIN subscriptions :
          (\/ Renews(s)
           \/ last'.op = "renew_due" /\ subscriptions'[s] # subscriptions[s])
              => /\ sweep'.step = "charged"
                 /\ sweep'.charged # <<>>
                 /\ sweep'.charged[Len(sweep'.charged)] = s
                 /\ ~ChargeFailed(sweep'.result)]_vars

\* The task has renewed a subscription after a success code.
RenewedAfterSuccess ==
    /\ last.op = "renew_due"
    /\ sweep.step = "charged"
    /\ sweep.result = Some(CodeSuccess)
    /\ renewals = 1
    /\ \E s \in DOMAIN subscriptions :
          /\ sweep.charged = <<s>>
          /\ subscriptions[s].start_date = Some(now)
          /\ subscriptions[s].end_date = Some(now + RenewalDays)

\* The end of the sweep when get_expired_unpaid_subscriptions or
\* suspend_subscription returns Err (renewal_task.rs:92-95): nothing is
\* suspended and the task goes to sleep.
SuspendExpiredFails ==
    /\ sweep.pc = "renew"
    /\ sweep.due = <<>>
    /\ sweep' = [sweep EXCEPT !.pc = "sleep"]
    /\ last' = Label("suspend_expired_failed", 0)
    /\ UNCHANGED <<now, subscriptions, payments, gateway, polls, callbacks,
                   autoStore, paymentMethods, delivered, overlapped, reconciled,
                   mapVars, subVars, recurring_payments, notifications, charges,
                   renewals, sweeps, inflight, pureVars>>

\* The renewal task when database writes may fail.
NextSweepFaults ==
    \/ NextSweep
    \/ \E charge_result \in ChargeResults : RenewDueWriteFails(charge_result)
    \/ SuspendExpiredFails

SpecSweepFaults == Init /\ [][NextSweepFaults]_vars

\* The step sends a charge for subscription s.
Charges(s) ==
    /\ charges' = charges + 1
    /\ sweep.due # <<>>
    /\ Head(sweep.due) = s

\* C22: once the gateway has accepted a renewal charge for a subscription, no
\* sweep charges that subscription again before the day that charge pays up
\* to, even if the database write after the charge failed.
NoSecondChargeInPaidPeriod ==
    [][\A s \in DOMAIN subscriptions :
          Charges(s) => \/ sweep.paid[s] = None
                        \/ now >= sweep.paid[s][1]]_vars

(***************************************************************************)
(* Automatic charges in flight: the renewal task and POST /payments/       *)
(* recurring each send a charge and await the gateway's answer.  The user  *)
(* has one registration id; it is the token of the recurring_payments      *)
(* record and the peach_registration_id of the stored payment method.      *)
(***************************************************************************)
\* The charge the renewal task awaits the answer to.
TaskCharge(sub_id) ==
    [by |-> "start_renewal_task", id |-> "RENEWAL_" \o ToString(sub_id)]

\* The charge a recurring-payment request awaits the answer to.
EndpointCharge(txn) == [by |-> "create_recurring_payment", id |-> txn]

\* The renewal task finds the token of the next due subscription's user and
\* sends the charge (renewal_task.rs:29-39).
RenewChargeSend ==
    /\ sweep.pc = "renew"
    /\ sweep.due # <<>>
    /\ get_recurring_token_by_user(recurring_payments) # None
    /\ inflight' = inflight \cup {TaskCharge(Head(sweep.due))}
    /\ sweep' = [sweep EXCEPT !.pc = "charging"]
    /\ last' = Label("renew_charge_sent", 0)
    /\ UNCHANGED <<now, subscriptions, payments, gateway, polls, callbacks,
                   autoStore, paymentMethods, delivered, overlapped, reconciled,
                   mapVars, subVars, recurring_payments, notifications, charges,
                   renewals, sweeps, pureVars>>

\* The gateway answers the task's charge (renewal_task.rs:41-72).
RenewChargeAnswer(charge_result) ==
    /\ sweep.pc = "charging"
    /\ LET sub_id == Head(sweep.due)
       IN  /\ inflight' = inflight \ {TaskCharge(sub_id)}
           /\ charges' = charges + 1
           /\ sweep' = [Charged(sweep, sub_id, charge_result, now) EXCEPT !.pc = "renew"]
           /\ IF charge_result # None /\ RenewalChargeSucceeded(charge_result[1])
              THEN /\ subscriptions' =
                          mark_subscription_renewed(subscriptions, sub_id, now)
                   /\ renewals' = renewals + 1
                   /\ UNCHANGED notifications
              ELSE /\ notifications' = notifications + 1
                   /\ UNCHANGED <<subscriptions, renewals>>
    /\ last' = Label("renew_due", 0)
    /\ UNCHANGED <<now, payments, gateway, polls, callbacks, autoStore,
                   paymentMethods, delivered, overlapped, reconciled,
                   mapVars, subVars, recurring_payments, sweeps, pureVars>>

\* The loop body for a user without token: no charge is sent.
RenewDueWithoutToken ==
    /\ get_recurring_token_by_user(recurring_payments) = None
    /\ RenewDue(None)

\* POST /payments/recurring up to the call of process_recurring_payment
\* (handlers/payment.rs:499-549): the payment record is created and the
\* charge is sent.
RecurringChargeSend(subscription_id) ==
    /\ subscription_id \in DOMAIN subscriptions
    /\ paymentMethods > 0
    /\ Cardinality(DOMAIN payments) < MaxPayments
    /\ payments' = create_recurring_payment(payments, subscription_id)
    /\ inflight' = inflight \cup {EndpointCharge(Txn(Cardinality(DOMAIN payments) + 1))}
    /\ last' = Label("recurring_charge_sent", 0)
    /\ UNCHANGED <<now, subscriptions, gateway, polls, callbacks, autoStore,
                   paymentMethods, delivered, overlapped, reconciled,
                   mapVars, subVars, sweepVars, pureVars>>

\* The gateway answers the request's charge (handlers/payment.rs:550-582).
RecurringChargeAnswer(txn, response) ==
    /\ EndpointCharge(txn) \in inflight
    /\ response \in RecurringResponses
    /\ inflight' = inflight \ {EndpointCharge(txn)}
    /\ IF response = None
       THEN /\ UNCHANGED <<payments, subscriptions, gateway>>
            /\ last' = Label("create_recurring_payment", 500)
       ELSE LET result_code == response[1]
                status == RecurringStatusOf(result_code)
            IN  /\ payments' = update_payment_status(payments, txn, status)
                /\ subscriptions' =
                     IF status = "Completed" /\ payments[txn].subscription_id # None
                     THEN activate_subscription(subscriptions,
                                                payments[txn].subscription_id[1], now)
                     ELSE subscriptions
                /\ gateway' = IF result_code \in WebhookCodes
                              THEN gateway @@ (txn :> result_code)
                              ELSE gateway
                /\ last' = Label("create_recurring_payment", 200)
    /\ UNCHANGED <<now, polls, callbacks, autoStore, paymentMethods, delivered,
                   overlapped, reconciled, mapVars, subVars, sweepVars, pureVars>>

NextCharges ==
    \/ CreateSubscription
    \/ \E s \in SubIds : InitiatePayment(s, TRUE)
    \/ \E txn \in TxnIds : GatewaySettle(txn, CodeSuccess)
    \/ \E txn \in TxnIds :
          /\ CodeSuccess \in GatewayReported(txn)
          /\ PaymentCallback(SignedForm(txn, CodeSuccess, TRUE))
    \/ \E txn \in TxnIds : PaymentCallbackSuccess(txn, TRUE)
    \/ \E txn \in TxnIds : AutoStoreTask(txn, TRUE)
    \/ DayPasses
    \/ RegisterRecurringToken
    \/ SweepStart
    \/ RenewChargeSend
    \/ \E charge_result \in ChargeResults : RenewChargeAnswer(charge_result)
    \/ RenewDueWithoutToken
    \/ SuspendExpired
    \/ \E s \in SubIds : RecurringChargeSend(s)
    \/ \E txn \in TxnIds, response \in RecurringResponses :
          RecurringChargeAnswer(txn, response)

SpecCharges == Init /\ [][NextCharges]_vars

\* C23: at most one automatic charge is in flight at any moment.
OneChargeInFlight == Cardinality(inflight) <= 1

\* C24: a subscription the task has renewed in this sweep is not suspended by
\* the expired-unpaid step that ends the sweep.
RenewedNotSuspendedInSweep ==
    [][last'.op = "suspend_expired"
          => \A s \in DOMAIN subscriptions :
                (/\ ChargesFor(sweep.charged, s) > 0
                 /\ sweep.paid[s] = Some(now + RenewalDays))
                    => subscriptions'[s].status # "Suspended"]_vars

\* A sweep that renewed a subscription two days after its end date has gone
\* to sleep and the subscription is Active.
RenewedSweepDone ==
    /\ last.op = "suspend_expired"
    /\ renewals = 1
    /\ now = MaxSweepDay
    /\ \E s \in DOMAIN subscriptions :
          /\ sweep.charged = <<s>>
          /\ sweep.paid[s] = Some(now + RenewalDays)
          /\ subscriptions[s] = [status |-> "Active", start_date |-> Some(now),
                                 end_date |-> Some(now + RenewalDays)]

(***************************************************************************)
(* The renewal task with several subscriptions, failing database writes,   *)
(* and the scheduling of the task.                                         *)
(***************************************************************************)
\* POST /subscriptions for the users the task serves.
CreateSweepSubscription ==
    /\ Cardinality(DOMAIN subscriptions) < MaxSweepSubs
    /\ subscriptions' = create_subscription(subscriptions)
    /\ last' = Label("create_subscription", 201)
    /\ UNCHANGED <<now, payments, gateway, polls, callbacks, autoStore,
                   paymentMethods, delivered, overlapped, reconciled,
                   mapVars, subVars, sweepVars, inflight, pureVars>>

\* The answers to a charge, one of each kind: an error, a success code and a
\* failure code.
ChargeResultKinds == {None, Some(CodeSuccess), Some(CodeDeclined)}

\* A step of the task.
TaskStep ==
    \/ SweepStart
    \/ \E charge_result \in ChargeResultKinds : RenewDue(charge_result)
    \/ \E charge_result \in ChargeResultKinds : RenewDueWriteFails(charge_result)
    \/ SuspendExpired
    \/ SuspendExpiredFails

NextSweepFair ==
    \/ CreateSweepSubscription
    \/ \E s \in DOMAIN subscriptions :
          /\ subscriptions[s].status = "Pending"
          /\ ActivateSubscription(s)
    \/ DayPasses
    \/ RegisterRecurringToken
    \/ TaskStep

\* The runtime keeps running the spawned task, and every call the task awaits
\* returns.
SpecSweepFair == Init /\ [][NextSweepFair]_vars /\ WF_vars(TaskStep)

\* C25: in a sweep every due subscription is processed whatever errors the
\* others met, the sweep then reaches its suspension step and goes to sleep,
\* and the next sweep begins.
SweepProcessesEveryDue ==
    /\ \A n \in 1..MaxSweepSubs :
          (sweep.pc = "renew" /\ Len(sweep.due) = n)
              ~> (sweep.pc = "renew" /\ Len(sweep.due) = n - 1)
    /\ (sweep.pc = "renew" /\ sweep.due = <<>>) ~> (sweep.pc = "sleep")
    /\ (sweep.pc = "sleep" /\ sweeps < MaxSweeps) ~> (sweep.pc = "renew")

\* A sweep over two due subscriptions has gone to sleep after both were
\* charged and each database write that followed failed.
SweepDoneDespiteErrors ==
    /\ sweep.pc = "sleep"
    /\ Len(sweep.charged) = MaxSweepSubs
    /\ charges = MaxSweepSubs
    /\ notifications = 0
    /\ renewals = 0

(***************************************************************************)
(* The renewal task when the suspension writes succeed.                    *)
(***************************************************************************)
\* A step of the task in which suspend_subscription returns Ok.
TaskStepSuspends ==
    \/ SweepStart
    \/ \E charge_result \in ChargeResultKinds : RenewDue(charge_result)
    \/ \E charge_result \in ChargeResultKinds : RenewDueWriteFails(charge_result)
    \/ SuspendExpired

NextSuspendFair ==
    \/ CreateSweepSubscription
    \/ \E s \in DOMAIN subscriptions :
          /\ subscriptions[s].status = "Pending"
          /\ ActivateSubscription(s)
    \/ DayPasses
    \/ RegisterRecurringToken
    \/ TaskStepSuspends

\* The runtime keeps running the spawned task, and every call the task awaits
\* returns.
SpecSuspendFair == Init /\ [][NextSuspendFair]_vars /\ WF_vars(TaskStepSuspends)

\* An Active subscription whose end date and cutoff have passed.
PastGrace(s) ==
    /\ s.status = "Active"
    /\ s.end_date # None
    /\ GraceEnd(s) < now

ClientPolls(txn) ==
    \/ /\ txn \in DOMAIN gateway
       /\ CheckPaymentStatus(txn, Some(gateway[txn]))
    \/ CheckPaymentStatusAnswered(txn)

NextPoll ==
    \/ Tick
    \/ \E txn \in TxnIds, code \in FinalCodes : GatewaySettle(txn, code)
    \/ CreateSubscription
    \/ \E s \in SubIds, ok \in BOOLEAN : InitiatePayment(s, ok)
    \/ \E txn \in TxnIds \cup {UnknownTxn} : CheckPaymentStatus(txn, None)
    \/ \E txn \in TxnIds : ClientPolls(txn)

\* The client keeps polling each of its payments, and the gateway answers.
SpecPoll == Init /\ [][NextPoll]_vars /\ \A txn \in TxnIds : WF_vars(ClientPolls(txn))

\* The gateway has settled the checkout of txn.
Settled(txn) ==
    /\ txn \in DOMAIN gateway
    /\ gateway[txn] \in FinalCodes

Verified(form) ==
    /\ FormGet(form, "signature") # <<>>
    /\ validate_webhook_signature(create_signature_payload(form),
                                  FormGet(form, "signature"))

\* C28: a verified webhook whose merchant transaction id matches no Payment
\* creates no Payment and changes no Payment and no Subscription, whatever
\* its result code: no step that changes the payments or the subscriptions
\* is the handling of such a webhook.
UnknownTxnWebhookChangesNothing ==
    [][(payments' # payments \/ subscriptions' # subscriptions)
          => \A form \in WebhookForms :
                (/\ Verified(form)
                 /\ get_payment_by_merchant_id(payments, FormTxn(form)) = None)
                    => ~PaymentCallback(form)]_vars

\* A verified webhook was answered while the ledger has a subscription and
\* no payment at all.
UnknownTxnWebhookAnswered ==
    /\ last = Label("payment_callback", 200)
    /\ DOMAIN payments = {}
    /\ subscriptions # <<>>

callback_write_error_500(form) ==
    /\ Verified(form)
    /\ FormTxn(form) \in DOMAIN payments
    /\ CallbackBranch(FormGet(form, "result.code")) \in {"success", "cancelled"}
    /\ last' = Label("payment_callback", 500)
    /\ UNCHANGED <<now, subscriptions, payments, gateway, polls, callbacks,
                   autoStore, paymentMethods, delivered, overlapped, reconciled,
                   mapVars, subVars, sweepVars, inflight, pureVars>>

\* payment_callback for a verified form that names a payment when every
\* write returns Err (update_payment_status, update_payment_peach_id,
\* activate_subscription): the results are dropped, the success arm still
\* spawns the auto-store task, and the handler answers.
PaymentCallbackWriteFails(form) ==
    /\ Verified(form)
    /\ FormTxn(form) \in DOMAIN payments
    /\ CallbackBranch(FormGet(form, "result.code")) \in {"success", "cancelled"}
    /\ LET txn == FormTxn(form)
           spawns == /\ CallbackBranch(FormGet(form, "result.code")) = "success"
                     /\ ShouldAutoStore(payments[txn], "id" \in DOMAIN form)
       IN  /\ spawns => autoStore[txn].started < MaxDeliveries
           /\ autoStore' = IF spawns
                           THEN [autoStore EXCEPT ![txn] =
                                   [started |-> @.started + 1,
                                    pending |-> @.pending + 1]]
                           ELSE autoStore
    /\ last' = Label("payment_callback", 200)
    /\ UNCHANGED <<now, subscriptions, payments, gateway, polls, callbacks,
                   paymentMethods, delivered, overlapped, reconciled,
                   mapVars, subVars, sweepVars, inflight, pureVars>>

NextWebhook ==
    \/ CreateSubscription
    \/ \E s \in SubIds, ok \in BOOLEAN : InitiatePayment(s, ok)
    \/ \E txn \in TxnIds, code \in FinalCodes : GatewaySettle(txn, code)
    \/ \E form \in WebhookForms : Verified(form) /\ PaymentCallback(form)
    \/ \E form \in WebhookForms : PaymentCallbackWriteFails(form)
    \/ \E txn \in TxnIds, has_id \in BOOLEAN : PaymentCallbackSuccess(txn, has_id)
    \/ \E txn \in TxnIds, stored \in BOOLEAN : AutoStoreTask(txn, stored)

SpecWebhook == Init /\ [][NextWebhook]_vars

\* C30: a webhook whose signature verifies is answered with 200, whether
\* its merchant transaction id is known or not, whatever its result code,
\* and whether the writes and the auto-store task succeed or fail; the
\* success arm answers after the lookup of the payment.
VerifiedWebhookAnswered200 ==
    /\ [][\A form \in WebhookForms :
             (/\ Verified(form)
              /\ PaymentCallback(form) \/ PaymentCallbackWriteFails(form))
                 => \/ last' = Label("payment_callback", 200)
                    \/ /\ last' = Label("payment_callback_lookup", 0)
                       /\ \E has_id \in BOOLEAN :
                             callbacks'[<<FormTxn(form), has_id>>] > 0]_vars
    /\ [][\A txn \in TxnIds, has_id \in BOOLEAN :
             PaymentCallbackSuccess(txn, has_id)
                 => last' = Label("payment_callback", 200)]_vars

\* A success webhook for a payment was answered 200 although its writes
\* failed: the auto-store task was spawned and the payment is still Pending.
WebhookAnsweredDespiteFailedWrites ==
    /\ last = Label("payment_callback", 200)
    /\ \E txn \in DOMAIN payments :
          /\ autoStore[txn].started > 0
          /\ payments[txn].status = "Pending"

(***************************************************************************)
(* The signature check of payment_callback on request bodies whose         *)
(* parameter names and values are spelled out character by character.      *)
(***************************************************************************)
MaxKeyLen == 2
MaxValueLen == 1
MaxParams == 2

\* The characters of names and values, in ascending order.
Alphabet == <<"a", "b">>
CharOrd(c) == CHOOSE i \in 1..Len(Alphabet) : Alphabet[i] = c
Strings(n) == UNION {[1..k -> {Alphabet[i] : i \in 1..Len(Alphabet)}] : k \in 0..n}

\* The parameter `signature`, and the other parameter names.
SignatureName == <<"signature">>
ParamNames == Strings(MaxKeyLen) \ {<<>>}
Params == ParamNames \X Strings(MaxValueLen)
ParamLists == UNION {[1..k -> Params] : k \in 0..MaxParams}

\* String::cmp on parameter names: the lexicographic order.
RECURSIVE StrLess(_, _)
StrLess(x, y) ==
    IF y = <<>> THEN FALSE
    ELSE IF x = <<>> THEN TRUE
    ELSE IF Head(x) = Head(y) THEN StrLess(Tail(x), Tail(y))
    ELSE CharOrd(Head(x)) < CharOrd(Head(y))

\* serde_urlencoded::from_bytes into a HashMap<String, String>: one value for
\* each name, that of its last occurrence in the body.
RECURSIVE ParseForm(_)
ParseForm(pairs) ==
    IF pairs = <<>> THEN [k \in {} |-> <<>>]
    ELSE LET p == pairs[Len(pairs)]
         IN  (p[1] :> p[2]) @@ ParseForm(SubSeq(pairs, 1, Len(pairs) - 1))

\* params.sort_by(|a, b| a.0.cmp(b.0))
RECURSIVE SortKeys(_)
SortKeys(keys) ==
    IF keys = {} THEN <<>>
    ELSE LET k == CHOOSE x \in keys : \A y \in keys \ {x} : StrLess(x, y)
         IN  <<k>> \o SortKeys(keys \ {k})

\* A payload of the values alone.
RECURSIVE join_values_only(_, _)
join_values_only(form, keys) ==
    IF keys = <<>> THEN <<>>
    ELSE form[Head(keys)] \o join_values_only(form, Tail(keys))

RECURSIVE JoinParams(_, _)
JoinParams(form, keys) ==
    IF keys = <<>> THEN <<>>
    ELSE Head(keys) \o form[Head(keys)] \o JoinParams(form, Tail(keys))

\* create_signature_payload on such a form: the parameters but `signature`,
\* sorted by name, each written as name then value with nothing between.
signature_payload(form) ==
    JoinParams(form, SortKeys(DOMAIN form \ {SignatureName}))

\* payment_callback up to the signature check: 400 without signature, 401
\* when it does not verify, else the request is accepted.
SignatureCheck(pairs) ==
    LET form_map == ParseForm(pairs)
        provided_signature == IF SignatureName \in DOMAIN form_map
                              THEN form_map[SignatureName] ELSE <<>>
    IN  IF provided_signature = <<>> THEN "400"
        ELSE IF ~validate_webhook_signature(signature_payload(form_map),
                                            provided_signature)
        THEN "401"
        ELSE "accepted"

\* The parameter sets the gateway signs, and the signature it sends with one.
SignedForms == {ParseForm(l) : l \in ParamLists}
GatewaySignature(form) == calculate_signature(SecretKey, signature_payload(form))

\* The requests the endpoint may receive: parameters in any order, with the
\* signature the gateway made for some parameter set, with one made without
\* the secret key, with an empty one or with none; the signature is the first
\* or the last parameter.
Requests ==
    LET signatures ==
            {[signed |-> Some(f), value |-> Some(GatewaySignature(f))] : f \in SignedForms}
            \cup {[signed |-> None, value |-> Some(<<"hmac", "guessed_key">>)],
                  [signed |-> None, value |-> Some(<<>>)],
                  [signed |-> None, value |-> None]}
    IN  {[pairs |-> IF g.value = None THEN l
                    ELSE IF first THEN <<<<SignatureName, g.value[1]>>>> \o l
                    ELSE l \o <<<<SignatureName, g.value[1]>>>>,
          signed |-> g.signed] :
            l \in ParamLists, g \in signatures, first \in BOOLEAN}

InitSign ==
    /\ InitLedger
    /\ peach_code = <<>>
    /\ outcomes = [site \in CallSites |-> "none"]
    /\ InitSub
    /\ InitSweep
    /\ request \in Requests
    /\ verdict = "none"
    /\ rows = <<>>

\* The endpoint checks the signature of the request.
CheckSignature ==
    /\ verdict = "none"
    /\ verdict' = SignatureCheck(request.pairs)
    /\ UNCHANGED <<ledgerVars, mapVars, subVars, sweepVars, inflight, request, rows>>

NextSign == CheckSignature

SpecSign == InitSign /\ [][NextSign]_vars

\* The parameters of a body but `signature`, in the order sent.
SignedParams(pairs) == SelectSeq(pairs, LAMBDA p : p[1] # SignatureName)

\* The value of the parameter `signature` of a body ("" when it has none).
ProvidedSignature(pairs) ==
    LET s == SelectSeq(pairs, LAMBDA p : p[1] = SignatureName)
    IN  IF s = <<>> THEN <<>> ELSE s[Len(s)][2]

\* The canonical payload of a list of parameters: all of them, sorted by
\* name, each written as name then value with no separator.
RECURSIVE CanonicalPayload(_)
CanonicalPayload(pairs) ==
    IF pairs = <<>> THEN <<>>
    ELSE LET i == CHOOSE j \in 1..Len(pairs) :
                    \A m \in 1..Len(pairs) :
                        \/ StrLess(pairs[j][1], pairs[m][1])
                        \/ pairs[j][1] = pairs[m][1] /\ j <= m
             rest == [m \in 1..(Len(pairs) - 1) |->
                         IF m < i THEN pairs[m] ELSE pairs[m + 1]]
         IN  pairs[i][1] \o pairs[i][2] \o CanonicalPayload(rest)

\* The same parameters sent in another order.
Reorderings(pairs) ==
    {[i \in 1..Len(pairs) |-> pairs[f[i]]] : f \in Permutations(1..Len(pairs))}

\* No parameter name occurs twice in the body.
DistinctNames(pairs) ==
    \A i, j \in 1..Len(pairs) : pairs[i][1] = pairs[j][1] => i = j

SignatureBindsParameterSet ==
    verdict = "accepted"
        => /\ request.signed # None
           /\ ParseForm(SignedParams(request.pairs)) = request.signed[1]
           /\ \A f \in SignedForms :
                 f # request.signed[1]
                     => signature_payload(f) # signature_payload(request.signed[1])

(***************************************************************************)
(* Pausing and resuming the Subscription object.                           *)
(***************************************************************************)
\* C32: a resume at time r of a subscription paused at time p moves end_date and
\* grace_end_date forward by exactly r - p and sets the status to Active, so the
\* end date after the resume is never earlier than before it.
ResumeShiftsEndDates ==
    [][(sub.status = "Suspended" /\ last'.op = "resume" /\ subOps' = subOps + 1)
          => /\ sub.paused_at # None
             /\ sub.end_date # None
             /\ sub.grace_end_date # None
             /\ now >= sub.paused_at[1]
             /\ last'.resp = Ok(Unit)
             /\ sub'.status = "Active"
             /\ sub'.end_date = Some(sub.end_date[1] + (now - sub.paused_at[1]))
             /\ sub'.grace_end_date
                    = Some(sub.grace_end_date[1] + (now - sub.paused_at[1]))
             /\ sub'.end_date[1] >= sub.end_date[1]]_vars

\* A Monthly subscription activated and paused on day 0 and resumed on day 8.
ResumedAfterEightDays ==
    /\ last.op = "resume"
    /\ last.resp = Ok(Unit)
    /\ now = 8
    /\ subOps = 3
    /\ sub.status = "Active"
    /\ sub.paused_at = None
    /\ sub.start_date = Some(0)
    /\ sub.end_date = Some(MonthlyDurationDays + 8)
    /\ sub.grace_end_date = Some(MonthlyDurationDays + GracePeriodDays + 8)

(***************************************************************************)
(* The lazy status update of the object and the due query of the scheduler *)
(* on the same subscription at the same instant.                           *)
(***************************************************************************)
\* C33: at now = end_date an Active subscription is not yet past its end date
\* for the lazy date-based update and for the scheduler's due query alike: the
\* update leaves it Active and the query does not select it.
EndDateInstantNotYetDue ==
    (sub.status = "Active" /\ sub.end_date = Some(now))
        => /\ update_status_based_on_dates(sub, now, GracePeriodDays).status = "Active"
           /\ get_due_subscriptions(<<sub>>, now) = <<>>

(***************************************************************************)
(* The proration of a plan change.                                         *)
(***************************************************************************)
\* C34: a change from Monthly (100 for 30 days) to Annual (1000 for 365 days)
\* that takes effect 15 days after the start date returns current_plan_refund
\* 50, new_plan_charge 1000 and net_amount 950, the charge minus the refund,
\* and sets the plan and the price of the subscription to Annual's.
MidMonthUpgradeProration ==
    [][\A effective_date \in {None} \cup {Some(d) : d \in EffectiveDates} :
          (/\ sub.status \in {"Active", "Grace"}
           /\ sub.plan = "Monthly"
           /\ sub.start_date # None
           /\ (IF effective_date = None THEN now ELSE effective_date[1])
                  = sub.start_date[1] + 15
           /\ ChangePlan("Annual", effective_date))
              => /\ last'.resp[1] = "Ok"
                 /\ Decimal_eq(last'.resp[2].current_plan_refund, Decimal_new(50, 0))
                 /\ Decimal_eq(last'.resp[2].new_plan_charge, Decimal_new(1000, 0))
                 /\ Decimal_eq(last'.resp[2].net_amount, Decimal_new(950, 0))
                 /\ sub'.plan = "Annual"
                 /\ Decimal_eq(sub'.price, Decimal_new(1000, 0))]_vars

\* A Monthly subscription changed to Annual 15 days after its start.
UpgradedMidMonth ==
    /\ last.op = "change_plan"
    /\ last.resp[1] = "Ok"
    /\ last.resp[2].days_used = 15
    /\ last.resp[2].days_remaining = 15
    /\ Decimal_eq(last.resp[2].current_plan_refund, Decimal_new(50, 0))
    /\ sub.plan = "Annual"
    /\ sub.end_date = Some(sub.start_date[1] + 15 + AnnualDurationDays)

\* C40: every change_plan on an Active or Grace subscription is accepted with
\* days_remaining between 0 and the duration of the old plan and with
\* current_plan_refund between 0 and the price of the old plan; a change_plan in
\* any other status returns an error and leaves the subscription as it was.
ProrationWithinPeriod ==
    [][(last'.op = "change_plan" /\ subOps' = subOps + 1)
          => IF sub.status \in {"Active", "Grace"}
             THEN /\ last'.resp[1] = "Ok"
                  /\ last'.resp[2].days_remaining >= 0
                  /\ last'.resp[2].days_remaining <= duration_days(sub.plan)
                  /\ ~Decimal_lt(last'.resp[2].current_plan_refund, Decimal_new(0, 0))
                  /\ ~Decimal_lt(price(sub.plan), last'.resp[2].current_plan_refund)
             ELSE /\ last'.resp = Err
                  /\ sub' = sub]_vars

(***************************************************************************)
(* create_payment on the payments table, which carries the index           *)
(* unique_merchant_txn on merchant_transaction_id.                         *)
(***************************************************************************)
MaxRows == 3
\* The values a merchant transaction id takes: what the generator of
\* create_payment(dto) draws, and what a caller of
\* create_payment(request, merchant_transaction_id) passes.
MerchantIds == {"TXN_A", "TXN_B", "TXN_C"}
\* The amounts asked for, in cents.
Amounts == {-100, 0, 100}

\* The Payment that create_payment builds (Payment::new).
Payment_new(merchant_transaction_id, amount) ==
    [merchant_transaction_id |-> merchant_transaction_id,
     amount |-> amount,
     status |-> "Pending"]

\* A table without the unique index: every row is written.
create_without_index(table, payment) ==
    [table |-> Append(table, payment), created |-> Some(payment)]

\* db.create(..).content(payment) on the payments table: the index
\* unique_merchant_txn refuses a row whose merchant_transaction_id the table
\* already has.
db_create(table, payment) ==
    IF \E i \in DOMAIN table :
          table[i].merchant_transaction_id = payment.merchant_transaction_id
    THEN [table |-> table, created |-> None]
    ELSE [table |-> Append(table, payment), created |-> Some(payment)]

\* The call writes payment, or fails on the database (db_ok = FALSE).
WritesPayment(op, payment, db_ok) ==
    /\ Len(rows) < MaxRows
    /\ LET res == IF db_ok THEN db_create(rows, payment)
                  ELSE [table |-> rows, created |-> None]
       IN  /\ rows' = res.table
           /\ last' = Label(op, IF res.created = None THEN Err ELSE Ok(res.created[1]))
    /\ UNCHANGED <<now, subscriptions, payments, gateway, polls, callbacks, autoStore,
                   paymentMethods, delivered, overlapped, reconciled,
                   mapVars, subVars, sweepVars, inflight, request, verdict>>

\* DatabaseService::create_payment(dto) of the handlers: the merchant transaction
\* id is "TXN_" and sixteen characters of a random uuid.
CreatePayment(uuid, amount, db_ok) ==
    /\ uuid \in MerchantIds
    /\ WritesPayment("create_payment", Payment_new(uuid, amount), db_ok)

\* DatabaseService::create_payment(request, merchant_transaction_id) of
\* src/src/services/database.rs: the merchant transaction id is the caller's.
CreatePaymentFor(merchant_transaction_id, amount, db_ok) ==
    /\ merchant_transaction_id \in MerchantIds
    /\ WritesPayment("create_payment_for",
                     Payment_new(merchant_transaction_id, amount), db_ok)

NextCreate ==
    \/ \E uuid \in MerchantIds, amount \in Amounts, db_ok \in BOOLEAN :
          CreatePayment(uuid, amount, db_ok)
    \/ \E merchant_transaction_id \in MerchantIds, amount \in Amounts,
          db_ok \in BOOLEAN :
          CreatePaymentFor(merchant_transaction_id, amount, db_ok)

SpecCreate == Init /\ [][NextCreate]_vars

\* C35: every successful create_payment yields a Payment with status Pending
\* whose merchant transaction id differs from the merchant transaction id of
\* every Payment created before.
CreatedPaymentHasFreshId ==
    [][(last'.op \in {"create_payment", "create_payment_for"} /\ last'.resp[1] = "Ok")
          => /\ rows' = Append(rows, last'.resp[2])
             /\ last'.resp[2].status = "Pending"
             /\ \A i \in DOMAIN rows :
                   rows[i].merchant_transaction_id
                       # last'.resp[2].merchant_transaction_id]_vars

\* A third Payment created after two others.
ThirdPaymentCreated ==
    /\ Len(rows) = MaxRows
    /\ last.op = "create_payment"
    /\ last.resp[1] = "Ok"
    /\ rows[Len(rows)] = last.resp[2]
    /\ rows[Len(rows)].status = "Pending"

\* C36: create_payment with an amount below 0 fails with a validation error and
\* creates no Payment record.
NegativeAmountRejected ==
    [][\A id \in MerchantIds, amount \in Amounts, db_ok \in BOOLEAN :
          (amount < 0 /\ (\/ CreatePayment(id, amount, db_ok)
                          \/ CreatePaymentFor(id, amount, db_ok)))
              => (last'.resp = Err /\ rows' = rows)]_vars

(***************************************************************************)
(* PaymentStatus::from_peach_code on every result code.                    *)
(***************************************************************************)
\* C37: from_peach_code gives every result code a status: Completed to the
\* codes that start with 000.000 or 000.100, Processing to those that start
\* with 000.200, Cancelled to exactly 100.396.104, and Failed to every other
\* code.
FromPeachCodeTotal ==
    outcomes["from_peach_code"] # "none"
        => outcomes["from_peach_code"]
              = IF /\ Len(peach_code) >= 2
                   /\ peach_code[1] = "000"
                   /\ peach_code[2] \in {"000", "100"}
                THEN "Completed"
                ELSE IF /\ Len(peach_code) >= 2
                        /\ peach_code[1] = "000"
                        /\ peach_code[2] = "200"
                THEN "Processing"
                ELSE IF peach_code = <<"100", "396", "104">>
                THEN "Cancelled"
                ELSE "Failed"

\* The pending code 000.200.100 mapped to Processing.
PendingCodeProcessing ==
    /\ peach_code = <<"000", "200", "100">>
    /\ outcomes["from_peach_code"] = "Processing"

(***************************************************************************)
(* The payment ledger after a charge of the renewal task.                  *)
(***************************************************************************)
\* The transaction id of the n-th charge of the task: "RENEWAL_" and a uuid.
RenewalTransactionId(n) == "RENEWAL_" \o ToString(n)

\* C38: once the task has finished with a subscription whose charge the gateway
\* accepted, the payment ledger holds a Payment with the merchant transaction
\* id of that charge and status Completed.
AcceptedRenewalHasCompletedPayment ==
    (/\ sweep.step = "charged"
     /\ sweep.result # None
     /\ RenewalChargeSucceeded(sweep.result[1]))
        => /\ RenewalTransactionId(charges) \in DOMAIN payments
           /\ payments[RenewalTransactionId(charges)].status = "Completed"

====
